---------------------------- MODULE Spec2Model ----------------------------
(***************************************************************************)
(* Fuzzy PSI under Hamming distance: FPSIReceiverFixed and FPSISenderFixed *)
(* with the primitives of secure_primitives.h (ssPEQT, PEqT, OT) and the   *)
(* E-LSH fingerprinter.  Two processes, one FIFO channel per direction.    *)
(*                                                                         *)
(* A BFV ciphertext is modelled by the slot vector it decrypts to; slot    *)
(* arithmetic is modulo the plaintext modulus.  Vectors are functions on   *)
(* 0..n-1 (the source's indices); growing lists are sequences.             *)
(***************************************************************************)
EXTENDS Integers, Sequences, FiniteSets, TLC

(* ------------------------------ bounds -------------------------------- *)
\* d: vector dimension (main: d = 128)
D == 9
\* delta: Hamming threshold (main: delta = 10)
Delta == 1
\* L: number of LSH functions (main: L = 8)
L == 2
\* n: Receiver set size (main: n = 256)
N == 2
\* m: Sender set size (main: m = 256)
M == 1
\* slots of a plaintext beyond the first d (slot_count is 8192 in the build)
SlotPad == 1
\* width of a machine word of the modelled address space
AddrBits == 3

(* -------------------------- program constants ------------------------- *)
\* PlainModulus::Batching(8192, 20): the 20-bit prime congruent 1 mod 16384
PlainModulus == 1032193
\* prng_.get<uint64_t>() % 1000
MaskRange == 1000
\* bits per ssPEQT block: (d_ + 7) / 8, slot * 8 + bit
BlockBits == 8
\* const int BATCH_SIZE = 16
BATCH_SIZE == 16

(* ------------------------------ helpers ------------------------------- *)
BitVec(n) == [0..(n - 1) -> {0, 1}]

Min(a, b) == IF a < b THEN a ELSE b

Abs(x) == IF x < 0 THEN -x ELSE x

\* uint8_t a ^ b on values in {0,1}
XorBit(a, b) == (a + b) % 2

RECURSIVE XorWord(_, _, _)
\* bitwise exclusive or of two w-bit words
XorWord(a, b, w) ==
    IF w = 0 THEN 0
    ELSE ((a + b) % 2) + 2 * XorWord(a \div 2, b \div 2, w - 1)

\* utils::hammingDistance
hammingDistance(v1, v2) ==
    Cardinality({i \in (DOMAIN v1) \cap (DOMAIN v2) : v1[i] # v2[i]})

(* ------------------------------- SEAL --------------------------------- *)
slot_count == D + SlotPad

Slots == 0..(slot_count - 1)

\* a Plaintext is [pt |-> its slot values], a Ciphertext [ct |-> the slot
\* values of the plaintext it encrypts]

\* BatchEncoder::encode of a vector of at most slot_count values:
\* the values fill the first slots, the remaining slots are zero
encode(values) ==
    [pt |-> [s \in Slots |->
                IF s \in DOMAIN values THEN values[s] % PlainModulus ELSE 0]]

\* std::vector<uint64_t>{x}
Single(x) == [i \in {0} |-> x]

\* Encryptor::encrypt
encrypt(plain) == [ct |-> plain.pt]

\* Decryptor::decrypt
decrypt(cipher) == [pt |-> cipher.ct]

\* BatchEncoder::decode: the vector of the slot values
decode(plain) == plain.pt

\* Evaluator::add
he_add(c1, c2) == [ct |-> [s \in Slots |-> (c1.ct[s] + c2.ct[s]) % PlainModulus]]

\* Evaluator::multiply_plain
multiply_plain(c, p) == [ct |-> [s \in Slots |-> (c.ct[s] * p.pt[s]) % PlainModulus]]

\* Evaluator::sub_plain_inplace
sub_plain(c, p) == [ct |-> [s \in Slots |-> (c.ct[s] - p.pt[s]) % PlainModulus]]

\* Evaluator::add_plain_inplace
add_plain(c, p) == [ct |-> [s \in Slots |-> (c.ct[s] + p.pt[s]) % PlainModulus]]


(* ------------------------------- E-LSH -------------------------------- *)
\* k = ceil(d / (delta + 1))
k_ == (D + Delta) \div (Delta + 1)

\* the values of subsets_ the model draws from: generateRandomSubsets leaves
\* L lists of k_ distinct dimensions, the outcome of a fixed-seed shuffle that
\* is the same at both parties; the model takes the windows of k_ consecutive
\* dimensions (mod d) that start at shift + l
SubsetChoices ==
    {[l \in 0..(L - 1) |-> {(shift + l + i) % D : i \in 0..(k_ - 1)}] :
        shift \in {0, 1}}

\* prng_.SetSeed(block(...)) of the Receiver and of the Sender
ReceiverSeed == <<987654, 321098>>

SenderSeed == <<123456, 789012>>

\* an E-LSH whose shuffle runs on the party's own PRNG
ELSHFmap_own_prng(prng_seed, shuffled) ==
    IF prng_seed = ReceiverSeed THEN shuffled
    ELSE CHOOSE c \in SubsetChoices : c # shuffled

\* subsets_ after ELSHFmap(d, delta, L): selectHighEntropyDimensions and
\* generateRandomSubsets run on their own std::mt19937 rng(42), whose shuffle
\* leaves "shuffled"; the PRNG of the party that constructs it is not read
ELSHFmap(prng_seed, shuffled) == shuffled

RECURSIVE Digits(_)
\* std::to_string of a non-negative int, as character codes
Digits(n) == IF n < 10 THEN <<48 + n>> ELSE Digits(n \div 10) \o <<48 + (n % 10)>>

\* a parity that is the OR of the bits
Parity_or(vector, subset) ==
    IF \E dim \in subset : dim \in DOMAIN vector /\ vector[dim] = 1 THEN 1 ELSE 0

\* parity ^= vector[dim] over the dimensions of one subset
Parity(vector, subset) ==
    Cardinality({dim \in subset : dim \in DOMAIN vector /\ vector[dim] = 1}) % 2

\* an ID string without the subset index: equal parities give one ID
IdString_parity_only(l, parity) == Digits(parity)

\* the ID string "l||parity"
IdString(l, parity) == Digits(l) \o <<124, 124>> \o Digits(parity)

\* ELSHFmap::computeID
computeID(vector, subsets) ==
    {IdString(l, Parity(vector, subsets[l])) : l \in 0..(L - 1)}

\* ELSHFmap::computeIDBatch
computeIDBatch(vectors, subsets) ==
    [i \in DOMAIN vectors |-> computeID(vectors[i], subsets)]

\* std::string operator< (the order in which a std::set<std::string> is walked)
StrLess(a, b) ==
    \/ \E i \in 1..Min(Len(a), Len(b)) :
          /\ a[i] < b[i]
          /\ \A h \in 1..(i - 1) : a[h] = b[h]
    \/ /\ Len(a) < Len(b)
       /\ \A h \in 1..Len(a) : a[h] = b[h]

\* the ell-th element (from 0) met by "for (const auto& id_str : ids)"
NthId(ids, ell) ==
    CHOOSE s \in ids : Cardinality({t \in ids : StrLess(t, s)}) = ell

(* ---------------------------- block, OKVS ----------------------------- *)
\* osuCrypto::block(x1, x0): x1 is the high and x0 the low 64-bit word
Block(x1, x0) == [hi |-> x1, lo |-> x0]

\* block::get<uint64_t>(0): the low 64-bit word
Get64(b) == b.lo

\* std::hash<std::string>: taken to be collision-free on the ID strings
hasher(str) == str

\* pairs whose keys leave the vector index out
OkvsPairs_no_index(ID_W) ==
    UNION {{<<Block(hasher(id_str), 0), Block(i, 0)>> : id_str \in ID_W[i]} :
               i \in DOMAIN ID_W}

\* the (key, value) pairs of buildAndSendOKVS
OkvsPairs(ID_W) ==
    UNION {{<<Block(hasher(id_str), i), Block(i, 0)>> : id_str \in ID_W[i]} :
               i \in DOMAIN ID_W}

\* BandOkvs::Encode: the encoding answers every inserted key with its value
OkvsEncode(pairs) == pairs

\* BandOkvs::Decode: the value of an inserted key, a pseudorandom block otherwise
OkvsDecode(key, encoded, pseudorandom) ==
    IF \E p \in encoded : p[1] = key
    THEN (CHOOSE p \in encoded : p[1] = key)[2]
    ELSE pseudorandom

\* the blocks a decode of a key that was not inserted returns in the model:
\* the low word is any 64-bit value; for a Receiver set of n vectors the
\* model takes the first and the last index in range and one out of range
PseudorandomBlocks(n) == {Block(0, x) : x \in {0, n - 1, n} \cap Nat}

\* what BandOkvs::Decode does on a key that was not inserted: it returns a
\* pseudorandom block, or raises (the catch clauses of extractVectorFromPacked)
DecodeOutcomes(n) ==
    {[threw |-> FALSE, block |-> b] : b \in PseudorandomBlocks(n)}
      \cup {[threw |-> TRUE, block |-> Block(0, 0)]}

\* the key is one of those the encoding was built from
Inserted(key, encoded) == \E p \in encoded : p[1] = key

\* int m_okvs = static_cast<int>((1 + epsilon) * okvs_keys.size())
OkvsM(count) == (105 * count) \div 100

\* a table without the error: the last band length for every larger n
okvsBandLength_open(n) ==
    IF n <= 16384 THEN 339
    ELSE IF n <= 65536 THEN 350
    ELSE IF n <= 262144 THEN 366
    ELSE IF n <= 1048576 THEN 377
    ELSE IF n <= 4194304 THEN 396
    ELSE 413

\* FPSIReceiverFixed::okvsBandLength; -1 stands for the runtime_error
okvsBandLength(n) ==
    IF n <= 16384 THEN 339
    ELSE IF n <= 65536 THEN 350
    ELSE IF n <= 262144 THEN 366
    ELSE IF n <= 1048576 THEN 377
    ELSE IF n <= 4194304 THEN 396
    ELSE IF n <= 16777216 THEN 413
    ELSE -1

(* --------------------- Receiver: packing, decrypting ------------------ *)
\* a packing that fills the slots after the first d_ with ones
PackVector_ones_padded(w) ==
    encrypt(encode([k \in Slots |-> IF k < D THEN w[k] ELSE 1]))

\* sendEncryptedVectorsBatched: slot k = W_[i][k] for k < d_, then zeros
PackVector(w) == encrypt(encode([k \in 0..(D - 1) |-> w[k]]))

\* FPSIReceiverFixed::decryptVector: result[k] = decoded[0] & 1
decryptVector(enc_vec) ==
    [k \in DOMAIN enc_vec |-> decode(decrypt(enc_vec[k]))[0] % 2]

\* int num_slots = (d_ + 7) / 8
num_slots == (D + BlockBits - 1) \div BlockBits

\* the coordinates of block "slot": slot * 8 + bit, bit < 8, below d_
BlockCoords(slot) ==
    {idx \in 0..(D - 1) : idx \div BlockBits = slot}

\* a comparison of the first coordinate of the block alone
AllEqual_first(u, v, slot) ==
    IF u[slot * BlockBits] = v[slot * BlockBits] THEN 1 ELSE 0

\* processQuery: all_equal of one block
AllEqual(u, v, slot) ==
    IF \A idx \in BlockCoords(slot) : u[idx] = v[idx] THEN 1 ELSE 0

\* SecretSharedPEQT::generateShares with the drawn bit prng.get<uint8_t>() & 1
generateShares(x, y, drawn) ==
    LET equal == IF x = y THEN 1 ELSE 0
    IN  [a |-> drawn, b |-> XorBit(drawn, equal)]

\* processQuery: sum_diff = (int64_t) decoded[0] - (int64_t) random_mask
SumDiff(masked_sum, random_mask) ==
    decode(decrypt(masked_sum))[0] - random_mask

\* processQuery: match_count = num_slots - std::abs(sum_diff)
MatchCount(sum_diff) == num_slots - Abs(sum_diff)

\* the threshold without its one-block slack
threshold_slots_no_slack == num_slots - (Delta \div BlockBits)

\* processQuery: threshold_slots = num_slots - (delta_ / 8) - 1
threshold_slots == num_slots - (Delta \div BlockBits) - 1

\* processQuery: e_j_ell = (match_count >= threshold_slots) ? 1 : 0
FlagOf(sum_diff) == IF MatchCount(sum_diff) >= threshold_slots THEN 1 ELSE 0

(* ----------------------- Sender: the query round ---------------------- *)
\* an extraction that leaves every slot of the packed ciphertext in place
extractBitsFromPackedCipher_unmasked(packed) ==
    [k \in 0..(D - 1) |-> packed]

\* extractBitsFromPackedCipher: result[k] = packed * (unit plaintext at k)
extractBitsFromPackedCipher(packed) ==
    [k \in 0..(D - 1) |->
        multiply_plain(packed, encode([s \in Slots |-> IF s = k THEN 1 ELSE 0]))]

\* a dummy vector of encryptions of one
createDummyCipherVector_ones ==
    [k \in 0..(D - 1) |-> encrypt(encode(Single(1)))]

\* createDummyCipherVector: d_ encryptions of zero
createDummyCipherVector ==
    [k \in 0..(D - 1) |-> encrypt(encode(Single(0)))]

\* extractVectorFromPacked: the index taken from the decoded block
DecodedIndex(id_str, query_idx, encoded, pseudorandom) ==
    Get64(OkvsDecode(Block(hasher(id_str), query_idx), encoded, pseudorandom))

\* extractVectorFromPacked: the range check on the decoded index
InRange(vec_index, n_receiver, packed_vectors) ==
    ~(vec_index >= n_receiver \/ vec_index >= Cardinality(DOMAIN packed_vectors))

\* FPSISenderFixed::extractVectorFromPacked
extractVectorFromPacked(vec_index, n_receiver, packed_vectors) ==
    IF InRange(vec_index, n_receiver, packed_vectors)
    THEN extractBitsFromPackedCipher(packed_vectors[vec_index])
    ELSE createDummyCipherVector

\* FPSISenderFixed::computeHomomorphicSum
computeHomomorphicSum(mask, enc_w) ==
    [k \in 0..(D - 1) |-> he_add(encrypt(encode(Single(mask[k]))), enc_w[k])]

\* processQuery: u[k] = mask[k] ^ q_j[k]
MaskQuery(mask, q_j) == [k \in 0..(D - 1) |-> XorBit(mask[k], q_j[k])]

\* the values "prng_.get<uint64_t>() % 1000" is drawn from in the model:
\* the least and the greatest
BlindSamples == {0, MaskRange - 1}

RECURSIVE SumSlots(_, _, _)
\* computeMaskedSumHomomorphic: the running sum of enc_shares_a[i] - shares_b[i]
SumSlots(enc_shares_a, shares_b, i) ==
    LET diff == sub_plain(enc_shares_a[i], encode(Single(shares_b[i])))
    IN  IF i = 0 THEN diff
        ELSE he_add(SumSlots(enc_shares_a, shares_b, i - 1), diff)

\* FPSISenderFixed::computeMaskedSumHomomorphic
computeMaskedSumHomomorphic(enc_shares_a, shares_b, random_mask) ==
    add_plain(SumSlots(enc_shares_a, shares_b, Cardinality(DOMAIN shares_b) - 1),
              encode(Single(random_mask)))

(* -------------------------------- PEqT -------------------------------- *)
\* a masked vector filled up with zero bytes to whole 8-byte words
PeqtMasked_padded(flags, masks) ==
    LET n == Cardinality(DOMAIN flags)
    IN  [i \in 0..((((n + 7) \div 8) * 8) - 1) |->
            IF i < n THEN XorBit(flags[i], masks[i]) ELSE 0]

\* testAnyOne, Sender: masked[i] = flags[i] ^ masks[i]
PeqtMasked(flags, masks) == [i \in DOMAIN flags |-> XorBit(flags[i], masks[i])]

\* testAnyOne, Sender: local_or |= m
PeqtLocalOr(masks) == IF \E i \in DOMAIN masks : masks[i] = 1 THEN 1 ELSE 0

\* testAnyOne, Sender: (masked_result ^ local_or) == 1
PeqtSenderResult(masked_result, masks) ==
    XorBit(masked_result, PeqtLocalOr(masks)) = 1

\* testAnyOne, Receiver: result |= (masked[i] ^ flags[i])
PeqtReceiverResult(masked, flags) ==
    IF \E i \in DOMAIN flags : XorBit(masked[i], flags[i]) = 1 THEN 1 ELSE 0

(* --------------------------------- OT --------------------------------- *)
WordMod == 2 ^ AddrBits

\* the object representation of a std::vector<uint8_t> whose buffer of len
\* bytes starts at addr: the three pointers begin, end, end of storage
VectorObject(addr, len) ==
    [i \in 0..2 |-> IF i = 0 THEN addr % WordMod ELSE (addr + len) % WordMod]

\* encryptMessage<T>: byte i of the object is xored with key byte
\* i % sizeof(block); per 8-byte word, word i with key word i % 2
encryptMessage(msg, key) ==
    [i \in DOMAIN msg |-> XorWord(msg[i], key[i % 2], AddrBits)]

\* decryptMessage<T>
decryptMessage(enc, key) ==
    [i \in DOMAIN enc |-> XorWord(enc[i], key[i % 2], AddrBits)]

\* the keys prng.get<block>() is drawn from in the model (low word, high word)
KeySamples == {[i \in 0..1 |-> IF i = 0 THEN a ELSE b] : a \in {0, WordMod - 1}, b \in {1}}

\* where the Sender's address space holds the buffer of Q_[j], and of null_msg
QueryAddr(j) == 1 + j

NullAddr == 0

(* ------------------------------- state -------------------------------- *)
\* rcv, snd: the fields of FPSIReceiverFixed / FPSISenderFixed, the live
\* locals of the running member function and the place it is blocked at;
\* chanRS, chanSR: the messages in flight Receiver->Sender, Sender->Receiver
\* wire: the kinds of the messages sent so far in each direction
\* twin: a second session, run side by side with the first where two
\* sessions are compared; same_view: the Receivers of the two sessions have
\* received the same messages so far
VARIABLES rcv, snd, chanRS, chanSR, wire, twin, same_view

vars == <<rcv, snd, chanRS, chanSR, wire, twin, same_view>>

Msg(kind, val) == [kind |-> kind, val |-> val]

\* the bytes chl.send writes for a message of a fixed-size type or for an
\* array of uint8_t
MsgBytes(m) ==
    CASE m.kind = "u8" -> 1
      [] m.kind = "i32" -> 4
      [] m.kind = "u64" -> 8
      [] m.kind = "block" -> 16
      [] m.kind = "bytes" -> Cardinality(DOMAIN m.val)

\* the kinds of the first n messages of a channel
Kinds(chan, n) == [i \in 1..n |-> chan[i].kind]

\* n messages are there to be received, of the kinds the receives expect
Ready(chan, kinds) ==
    /\ Len(chan) >= Len(kinds)
    /\ Kinds(chan, Len(kinds)) = kinds

Drop(chan, n) == SubSeq(chan, n + 1, Len(chan))

RECURSIVE Repeat(_, _)
Repeat(x, n) == IF n = 0 THEN <<>> ELSE <<x>> \o Repeat(x, n - 1)

Zero == [k \in 0..(D - 1) |-> 0]

Ones == [k \in 0..(D - 1) |-> 1]

LastBit == [k \in 0..(D - 1) |-> IF k = D - 1 THEN 1 ELSE 0]

\* the vectors generateData draws for W_ and for Q_ in the model: the first
\* vector of a set ranges over the samples, the later ones are fixed
WSamples == {Zero, Ones}

QSamples == {Zero, LastBit, Ones}

WSetsOf(n) == {[i \in 0..(n - 1) |-> IF i = 0 THEN w ELSE Ones] : w \in WSamples}

WSets == WSetsOf(N)

QSetsOf(m) == {[j \in 0..(m - 1) |-> IF j = 0 THEN q ELSE LastBit] : q \in QSamples}

QSets == QSetsOf(M)

\* the masks generateRandomBinaryVector draws in a round in the model
MaskSamples == {Zero, LastBit}

\* the share vectors "prng.get<uint8_t>() & 1" fills in the model: the share
\* of block 0 is either bit, the shares of the later blocks are 0
ShareSamples == {s \in BitVec(num_slots) : \A i \in 1..(num_slots - 1) : s[i] = 0}

\* CommStats: bytes_sent_ = 0, bytes_received_ = 0
NoComm == [bytes_sent_ |-> 0, bytes_received_ |-> 0]

\* the locals of processQuery before the first round of a query
ReceiverQueryLocals ==
    [ell |-> 0, e_flags |-> <<>>, u |-> <<>>, v |-> <<>>, all_equal |-> <<>>,
     shares_a |-> <<>>, shares_b |-> <<>>, sum_diff |-> 0, match_count |-> 0]

SenderQueryLocals ==
    [ell |-> 0, e_flags |-> <<>>, mask |-> <<>>, vec_index |-> 0, hit |-> FALSE,
     okvs_key |-> <<>>, enc_w |-> <<>>, dummy_rounds |-> 0,
     shares_b |-> <<>>, random_mask |-> 0, masks |-> <<>>]

\* the Receiver after FPSIReceiverFixed(n, d, delta, L) and generateData;
\* initializeSEAL: keygen.secret_key(), keygen.create_public_key
InitialReceiver(W, subsets) ==
    [pc |-> "start", n_ |-> Cardinality(DOMAIN W), W_ |-> W,
     secret_key_ |-> "secret_key", public_key_ |-> "public_key",
     subsets_ |-> ELSHFmap(ReceiverSeed, subsets), ID_W_ |-> <<>>,
     okvs_keys_size |-> 0,
     okvs_encoded_ |-> {}, okvs_seed_ |-> 0, batch |-> 0,
     m_sender |-> 0, j |-> 0, q |-> ReceiverQueryLocals,
     has_match |-> FALSE, received_vector |-> <<>>,
     matched_sender_indices_ |-> {}, fuzzy_intersection_ |-> <<>>,
     offline_comm_ |-> NoComm, online_comm_ |-> NoComm,
     ended |-> FALSE, exit_status |-> 0, stdout |-> <<>>]

\* the Sender after FPSISenderFixed(m, d, delta, L) and generateData
InitialSender(Q, subsets) ==
    [pc |-> "start", m_ |-> Cardinality(DOMAIN Q), Q_ |-> Q,
     subsets_ |-> ELSHFmap(SenderSeed, subsets), ID_Q_ |-> <<>>,
     okvs_encoded_ |-> {}, okvs_seed_ |-> 0, okvs_m_ |-> 0,
     okvs_band_length_ |-> 0, okvs_n_items_ |-> 0,
     packed_vectors_ |-> <<>>, n_receiver_ |-> 0,
     encryptor_ |-> "none", batch |-> 0, j |-> 0,
     q |-> SenderQueryLocals, has_match |-> FALSE,
     matched_queries_ |-> {},
     offline_comm_ |-> NoComm, online_comm_ |-> NoComm,
     ended |-> FALSE, exit_status |-> 0, stdout |-> <<>>]

\* nothing sent yet
NoWire == [RS |-> <<>>, SR |-> <<>>]

\* no second session
NoTwin == [on |-> FALSE]

Init ==
    /\ \E W \in WSets, Q \in QSets, subsets \in SubsetChoices :
          /\ rcv = InitialReceiver(W, subsets)
          /\ snd = InitialSender(Q, subsets)
    /\ chanRS = <<>>
    /\ chanSR = <<>>
    /\ wire = NoWire
    /\ twin = NoTwin
    /\ same_view = TRUE

\* n: the least Receiver set size that takes two batches
NBatch == BATCH_SIZE + 1

\* one session whose Receiver set takes two batches
InitBatch ==
    /\ \E W \in WSetsOf(NBatch), Q \in QSets, subsets \in SubsetChoices :
          /\ rcv = InitialReceiver(W, subsets)
          /\ snd = InitialSender(Q, subsets)
    /\ chanRS = <<>>
    /\ chanSR = <<>>
    /\ wire = NoWire
    /\ twin = NoTwin
    /\ same_view = TRUE

\* two sessions that differ only in the value of the Sender's query 0
InitPair ==
    /\ \E W \in WSets, Q \in QSets, subsets \in SubsetChoices :
          /\ rcv = InitialReceiver(W, subsets)
          /\ snd = InitialSender(Q, subsets)
          /\ \E Q2 \in QSets \ {Q} :
                twin = [on |-> TRUE,
                        rcv |-> InitialReceiver(W, subsets),
                        snd |-> InitialSender(Q2, subsets),
                        chanRS |-> <<>>, chanSR |-> <<>>, wire |-> NoWire]
    /\ chanRS = <<>>
    /\ chanSR = <<>>
    /\ wire = NoWire
    /\ same_view = TRUE

(* ------------------------------ sessions ------------------------------ *)
\* one session: the two parties and the two directions of their channel
Session ==
    [rcv |-> rcv, snd |-> snd, chanRS |-> chanRS, chanSR |-> chanSR,
     wire |-> wire]

\* a handler is given by the condition under which it can run in a session
\* x (the place the party is at, the messages its receives wait for), by the
\* values it draws, and by the session it leaves for the values d it drew

\* the draw of a handler that draws nothing
NoDraw == {<<>>}

\* what the Receiver took off its channel in a handler that led from x to y
Received(x, y) ==
    IF Len(y.chanSR) < Len(x.chanSR)
    THEN SubSeq(x.chanSR, 1, Len(x.chanSR) - Len(y.chanSR))
    ELSE <<>>

\* the kinds of the messages a handler appended to a channel
NewKinds(before, after) ==
    IF Len(after) > Len(before)
    THEN [i \in 1..(Len(after) - Len(before)) |-> after[Len(before) + i].kind]
    ELSE <<>>

\* the wire of a session after a handler led it from x to y
Wire(x, y) ==
    [RS |-> x.wire.RS \o NewKinds(x.chanRS, y.chanRS),
     SR |-> x.wire.SR \o NewKinds(x.chanSR, y.chanSR)]

\* the handler has led the session to y and, on the same draw, the second
\* session (where there is one) to z
Run(y, z) ==
    /\ rcv' = y.rcv
    /\ snd' = y.snd
    /\ chanRS' = y.chanRS
    /\ chanSR' = y.chanSR
    /\ wire' = Wire(Session, y)
    /\ twin' = IF twin.on THEN [z EXCEPT !.wire = Wire(twin, z)] ELSE z
    /\ same_view' = (same_view /\
                       (twin.on => Received(Session, y) = Received(twin, z)))

(* -------------------------------- main -------------------------------- *)
\* the results a party writes to std::cout: the count runOnline prints when
\* its loop has ended, the size printStatistics prints
R_Results(r) ==
    <<[line |-> "matches", size |-> Cardinality(r.matched_sender_indices_)],
      [line |-> "intersection", size |-> Len(r.fuzzy_intersection_)]>>

S_Results(r) ==
    <<[line |-> "matched queries", size |-> Cardinality(r.matched_queries_)]>>

\* a main whose catch clause prints the statistics as well
R_main_prints(x) ==
    IF x.rcv.ended THEN x
    ELSE IF x.rcv.pc = "done"
    THEN [x EXCEPT !.rcv.stdout = @ \o R_Results(x.rcv),
                   !.rcv.ended = TRUE, !.rcv.exit_status = 0]
    ELSE IF x.rcv.pc = "Fatal"
    THEN [x EXCEPT !.rcv.stdout = @ \o R_Results(x.rcv),
                   !.rcv.ended = TRUE, !.rcv.exit_status = 1]
    ELSE x

\* main of the Receiver once runOffline, runOnline have returned or thrown:
\* printStatistics and return 0, or the catch clause and return 1
R_main(x) ==
    IF x.rcv.ended THEN x
    ELSE IF x.rcv.pc = "done"
    THEN [x EXCEPT !.rcv.stdout = @ \o R_Results(x.rcv),
                   !.rcv.ended = TRUE, !.rcv.exit_status = 0]
    ELSE IF x.rcv.pc = "Fatal"
    THEN [x EXCEPT !.rcv.ended = TRUE, !.rcv.exit_status = 1]
    ELSE x

\* main of the Sender once runOffline, runOnline have returned or thrown
S_main(x) ==
    IF x.snd.ended THEN x
    ELSE IF x.snd.pc = "done"
    THEN [x EXCEPT !.snd.stdout = @ \o S_Results(x.snd),
                   !.snd.ended = TRUE, !.snd.exit_status = 0]
    ELSE IF x.snd.pc = "Fatal"
    THEN [x EXCEPT !.snd.ended = TRUE, !.snd.exit_status = 1]
    ELSE x

(* --------------------------- offline phase ---------------------------- *)
\* int num_batches = (n + BATCH_SIZE - 1) / BATCH_SIZE
NumBatches(n) == (n + BATCH_SIZE - 1) \div BATCH_SIZE

\* "BATCH_" + std::to_string(batch), for the batches of the model
SyncToken(batch) ==
    CASE batch = 0 -> "BATCH_0"
      [] batch = 1 -> "BATCH_1"
      [] batch = 2 -> "BATCH_2"
      [] OTHER -> "BATCH_3"

\* str.size() of a saved ciphertext and of the saved public key in the model
CtBytes == 3

PkBytes == 5

\* sendCiphertext, receiveCiphertext: sizeof(uint64_t) + size
CiphertextBytes == 8 + CtBytes

\* sizeof(uint64_t) + okvs_size * sizeof(block) + sizeof(block) + sizeof(int) * 3
OkvsBytes(okvs_size) == 8 + okvs_size * 16 + 16 + 4 * 3

\* the packed ciphertexts of one batch of n vectors
CtsInBatch(n, batch) ==
    Min(batch * BATCH_SIZE + BATCH_SIZE, n) - batch * BATCH_SIZE

\* one batch with the sync token ahead of its packed ciphertexts
BatchMessages_token_first(W, batch) ==
    LET batch_start == batch * BATCH_SIZE
        batch_end == Min(batch_start + BATCH_SIZE, Cardinality(DOMAIN W))
        cts == [i \in 1..(batch_end - batch_start) |->
                   Msg("ct", PackVector(W[batch_start + i - 1]))]
    IN  <<Msg("str", SyncToken(batch))>> \o cts

\* one batch that runs on into the next batch before its sync token
BatchMessages_ahead(W, batch) ==
    LET batch_start == batch * BATCH_SIZE
        batch_end == Min(batch_start + 2 * BATCH_SIZE, Cardinality(DOMAIN W))
        cts == [i \in 1..(batch_end - batch_start) |->
                   Msg("ct", PackVector(W[batch_start + i - 1]))]
    IN  cts \o <<Msg("str", SyncToken(batch))>>

\* the messages of one batch: its packed ciphertexts, then the sync token
BatchMessages(W, batch) ==
    LET batch_start == batch * BATCH_SIZE
        batch_end == Min(batch_start + BATCH_SIZE, Cardinality(DOMAIN W))
        cts == [i \in 1..(batch_end - batch_start) |->
                   Msg("ct", PackVector(W[batch_start + i - 1]))]
    IN  cts \o <<Msg("str", SyncToken(batch))>>

\* a sendPublicKey that saves the secret key
PublicKeyMessage_secret(r) == <<Msg("str", r.secret_key_)>>

\* sendPublicKey: public_key_.save(pk_stream); chl.send(pk_str)
PublicKeyMessage(r) == <<Msg("str", r.public_key_)>>

\* the value drawn for okvs_seed_ (the model's OKVS does not depend on it)
SeedSamples == {Block("seed_hi", "seed_lo")}

\* Receiver: runOffline up to the first receive (the ACK of batch 0), or to
\* the end of the offline phase when there is no batch
R_RunOfflineReady(x) == x.rcv.pc = "start"

\* runOffline from buildAndSendOKVS on, okvs_keys holding "count" pairs
\* that encode to "encoded": okvsBandLength raises before anything is sent
R_BuildOkvsStep(x, seed, count, encoded) ==
    LET m_okvs == OkvsM(count)
        band_length == okvsBandLength(count)
        okvs == <<Msg("u64", m_okvs), Msg("blocks", encoded),
                  Msg("block", seed), Msg("i32", m_okvs),
                  Msg("i32", band_length), Msg("i32", count)>>
    IN  IF band_length = -1
        THEN [x EXCEPT !.rcv.okvs_keys_size = count, !.rcv.pc = "Fatal"]
        ELSE [x EXCEPT
                !.rcv.okvs_keys_size = count,
                !.rcv.okvs_encoded_ = encoded,
                !.rcv.okvs_seed_ = seed, !.rcv.batch = 0,
                !.rcv.offline_comm_.bytes_sent_ =
                    @ + OkvsBytes(m_okvs) + 4
                      + (IF NumBatches(x.rcv.n_) = 0 THEN PkBytes
                         ELSE CtsInBatch(x.rcv.n_, 0) * CiphertextBytes),
                !.rcv.pc = IF NumBatches(x.rcv.n_) = 0
                           THEN "wait_m" ELSE "wait_ack",
                !.chanRS = @ \o okvs \o <<Msg("i32", x.rcv.n_)>>
                             \o (IF NumBatches(x.rcv.n_) = 0
                                 THEN PublicKeyMessage(x.rcv)
                                 ELSE BatchMessages(x.rcv.W_, 0))]

R_RunOfflineStep(x, seed) ==
    LET ids == computeIDBatch(x.rcv.W_, x.rcv.subsets_)
        pairs == OkvsPairs(ids)
    IN  R_BuildOkvsStep([x EXCEPT !.rcv.ID_W_ = ids], seed,
                        Cardinality(pairs), OkvsEncode(pairs))

\* Receiver: the ACK of a batch; the next batch, or the public key
R_BatchAckReady(x) ==
    /\ x.rcv.pc = "wait_ack"
    /\ Ready(x.chanSR, <<"str">>)

\* the reply read and not compared
R_BatchAckStep_unchecked(x, d) ==
    IF x.rcv.batch + 1 < NumBatches(x.rcv.n_)
    THEN [x EXCEPT !.rcv.batch = @ + 1,
                   !.rcv.offline_comm_.bytes_sent_ =
                       @ + CtsInBatch(x.rcv.n_, x.rcv.batch + 1) * CiphertextBytes,
                   !.chanRS = @ \o BatchMessages(x.rcv.W_, x.rcv.batch + 1),
                   !.chanSR = Drop(@, 1)]
    ELSE [x EXCEPT !.rcv.batch = @ + 1, !.rcv.pc = "wait_m",
                   !.rcv.offline_comm_.bytes_sent_ = @ + PkBytes,
                   !.chanRS = @ \o PublicKeyMessage(x.rcv),
                   !.chanSR = Drop(@, 1)]

R_BatchAckStep(x, d) ==
    IF Head(x.chanSR).val # "ACK"
    THEN [x EXCEPT !.rcv.pc = "Fatal", !.chanSR = Drop(@, 1)]
    ELSE IF x.rcv.batch + 1 < NumBatches(x.rcv.n_)
    THEN [x EXCEPT !.rcv.batch = @ + 1,
                   !.rcv.offline_comm_.bytes_sent_ =
                       @ + CtsInBatch(x.rcv.n_, x.rcv.batch + 1) * CiphertextBytes,
                   !.chanRS = @ \o BatchMessages(x.rcv.W_, x.rcv.batch + 1),
                   !.chanSR = Drop(@, 1)]
    ELSE [x EXCEPT !.rcv.batch = @ + 1, !.rcv.pc = "wait_m",
                   !.rcv.offline_comm_.bytes_sent_ = @ + PkBytes,
                   !.chanRS = @ \o PublicKeyMessage(x.rcv),
                   !.chanSR = Drop(@, 1)]

\* Sender: runOffline through receiveOKVS
S_ReceiveOKVSReady(x) ==
    /\ x.snd.pc = "start"
    /\ Ready(x.chanRS, <<"u64", "blocks", "block", "i32", "i32", "i32">>)

S_ReceiveOKVSStep(x, d) ==
    [x EXCEPT !.snd.ID_Q_ = computeIDBatch(x.snd.Q_, x.snd.subsets_),
              !.snd.okvs_encoded_ = x.chanRS[2].val,
              !.snd.okvs_seed_ = x.chanRS[3].val,
              !.snd.okvs_m_ = x.chanRS[4].val,
              !.snd.okvs_band_length_ = x.chanRS[5].val,
              !.snd.okvs_n_items_ = x.chanRS[6].val,
              !.snd.offline_comm_.bytes_received_ = @ + OkvsBytes(x.chanRS[1].val),
              !.snd.pc = "wait_n",
              !.chanRS = Drop(@, 6)]

\* Sender: receiveEncryptedVectorsBatched, the count
S_ReceiveCountReady(x) ==
    /\ x.snd.pc = "wait_n"
    /\ Ready(x.chanRS, <<"i32">>)

S_ReceiveCountStep(x, d) ==
    LET n_receiver == Head(x.chanRS).val
    IN  [x EXCEPT !.snd.n_receiver_ = n_receiver,
                  !.snd.packed_vectors_ = [i \in 0..(n_receiver - 1) |-> <<>>],
                  !.snd.batch = 0,
                  !.snd.offline_comm_.bytes_received_ = @ + 4,
                  !.snd.pc = IF NumBatches(n_receiver) = 0
                             THEN "wait_pk" ELSE "wait_batch",
                  !.chanRS = Drop(@, 1)]

\* Sender: one batch of receiveEncryptedVectorsBatched, answered with ACK
BatchSize(x) ==
    LET batch_start == x.snd.batch * BATCH_SIZE
    IN  Min(batch_start + BATCH_SIZE, x.snd.n_receiver_) - batch_start

S_ReceiveBatchReady(x) ==
    /\ x.snd.pc = "wait_batch"
    /\ Ready(x.chanRS, Repeat("ct", BatchSize(x)) \o <<"str">>)

S_ReceiveBatchStep(x, d) ==
    LET batch_start == x.snd.batch * BATCH_SIZE
        batch_end == Min(batch_start + BATCH_SIZE, x.snd.n_receiver_)
    IN  [x EXCEPT
           !.snd.packed_vectors_ =
               [i \in DOMAIN @ |->
                   IF batch_start <= i /\ i < batch_end
                   THEN x.chanRS[i - batch_start + 1].val ELSE @[i]],
           !.snd.batch = @ + 1,
           !.snd.offline_comm_.bytes_received_ =
               @ + (batch_end - batch_start) * CiphertextBytes,
           !.snd.pc = IF x.snd.batch + 1 < NumBatches(x.snd.n_receiver_)
                      THEN "wait_batch" ELSE "wait_pk",
           !.chanRS = Drop(@, batch_end - batch_start + 1),
           !.chanSR = Append(@, Msg("str", "ACK"))]

\* Sender: receivePublicKey; the offline phase ends
S_ReceivePublicKeyReady(x) ==
    /\ x.snd.pc = "wait_pk"
    /\ Ready(x.chanRS, <<"str">>)

S_ReceivePublicKeyStep(x, d) ==
    [x EXCEPT !.snd.encryptor_ = Head(x.chanRS).val, !.snd.pc = "online",
              !.snd.offline_comm_.bytes_received_ = @ + PkBytes,
              !.chanRS = Drop(@, 1)]

(* ---------------------------- online: Sender -------------------------- *)
\* Sender: runOnline announces m_ and enters the query loop
S_RunOnlineReady(x) == x.snd.pc = "online"

S_RunOnlineStep(x, d) ==
    [x EXCEPT !.snd.j = 0, !.snd.q = SenderQueryLocals,
              !.snd.online_comm_.bytes_sent_ = @ + 4,
              !.snd.pc = IF x.snd.m_ = 0 THEN "done" ELSE "query",
              !.chanSR = Append(@, Msg("i32", x.snd.m_))]

\* a cap one below L_
max_iterations_short(ids) == Min(Cardinality(ids), L - 1)

\* processQuery: max_iterations = min(ids.size(), L_)
max_iterations(ids) == Min(Cardinality(ids), L)

\* Sender: one round of processQuery up to the receive of the shares
S_RoundReady(x) ==
    /\ x.snd.pc = "query"
    /\ x.snd.q.ell < max_iterations(x.snd.ID_Q_[x.snd.j])

S_RoundDraws(x) ==
    [decoded : DecodeOutcomes(x.snd.n_receiver_), mask : MaskSamples]

\* q.hit: the round reads packed_vectors_[vec_index]; q.dummy_rounds: the
\* rounds of the query so far that took the dummy ciphertext vector
S_RoundStep(x, d) ==
    LET id_str == NthId(x.snd.ID_Q_[x.snd.j], x.snd.q.ell)
        okvs_key == Block(hasher(id_str), x.snd.j)
        threw == ~Inserted(okvs_key, x.snd.okvs_encoded_) /\ d.decoded.threw
        vec_index == IF threw THEN 0
                     ELSE DecodedIndex(id_str, x.snd.j, x.snd.okvs_encoded_,
                                       d.decoded.block)
        hit == ~threw /\ InRange(vec_index, x.snd.n_receiver_,
                                 x.snd.packed_vectors_)
        enc_w == IF threw THEN createDummyCipherVector
                 ELSE extractVectorFromPacked(vec_index, x.snd.n_receiver_,
                                              x.snd.packed_vectors_)
        cipher == computeHomomorphicSum(d.mask, enc_w)
        u == MaskQuery(d.mask, x.snd.Q_[x.snd.j])
    IN  [x EXCEPT !.snd.q.mask = d.mask, !.snd.q.vec_index = vec_index,
                  !.snd.q.okvs_key = okvs_key,
                  !.snd.q.hit = hit,
                  !.snd.q.enc_w = enc_w,
                  !.snd.q.dummy_rounds = IF hit THEN @ ELSE @ + 1,
                  !.snd.online_comm_.bytes_sent_ = @ + D * CiphertextBytes + D,
                  !.snd.pc = "wait_shares",
                  !.chanSR = @ \o [k \in 1..D |-> Msg("ct", cipher[k - 1])]
                               \o <<Msg("bytes", u)>>]

\* Sender: the shares arrive; generateSenderShares, the blind, the masked sum
S_MaskedSumReady(x) ==
    /\ x.snd.pc = "wait_shares"
    /\ Ready(x.chanRS, Repeat("ct", num_slots))

S_MaskedSumDraws == [shares_b : ShareSamples, random_mask : BlindSamples]

S_MaskedSumStep(x, d) ==
    LET enc_shares_a == [i \in 0..(num_slots - 1) |-> x.chanRS[i + 1].val]
        masked_sum == computeMaskedSumHomomorphic(enc_shares_a, d.shares_b,
                                                  d.random_mask)
    IN  [x EXCEPT !.snd.q.shares_b = d.shares_b,
                  !.snd.q.random_mask = d.random_mask,
                  !.snd.offline_comm_.bytes_received_ =
                      @ + num_slots * CiphertextBytes,
                  !.snd.online_comm_.bytes_sent_ = @ + CiphertextBytes + 8,
                  !.snd.pc = "wait_flag",
                  !.chanRS = Drop(@, num_slots),
                  !.chanSR = @ \o <<Msg("ct", masked_sum),
                                    Msg("u64", d.random_mask)>>]

\* Sender: the flag of the round arrives; the round ends
S_FlagReady(x) ==
    /\ x.snd.pc = "wait_flag"
    /\ Ready(x.chanRS, <<"u8">>)

\* a round that drops the packed ciphertexts once its flag has arrived
S_FlagStep_drops_packed(x, d) ==
    [x EXCEPT !.snd.q.e_flags = Append(@, Head(x.chanRS).val),
              !.snd.q.ell = @ + 1,
              !.snd.q.mask = <<>>, !.snd.q.shares_b = <<>>,
              !.snd.q.random_mask = 0, !.snd.q.enc_w = <<>>,
              !.snd.q.okvs_key = <<>>,
              !.snd.online_comm_.bytes_received_ = @ + 1,
              !.snd.packed_vectors_ = <<>>,
              !.snd.pc = "query",
              !.chanRS = Drop(@, 1)]

S_FlagStep(x, d) ==
    [x EXCEPT !.snd.q.e_flags = Append(@, Head(x.chanRS).val),
              !.snd.q.ell = @ + 1,
              !.snd.q.mask = <<>>, !.snd.q.shares_b = <<>>,
              !.snd.q.random_mask = 0, !.snd.q.enc_w = <<>>,
              !.snd.q.okvs_key = <<>>,
              !.snd.online_comm_.bytes_received_ = @ + 1,
              !.snd.pc = "query",
              !.chanRS = Drop(@, 1)]

\* Sender: after the rounds, testAnyOne up to the receive of the result
S_PeqtSendReady(x) ==
    /\ x.snd.pc = "query"
    /\ ~(x.snd.q.ell < max_iterations(x.snd.ID_Q_[x.snd.j]))

S_PeqtSendDraws(x) == BitVec(Len(x.snd.q.e_flags))

S_PeqtSendStep(x, masks) ==
    LET flags == [i \in 0..(Len(x.snd.q.e_flags) - 1) |-> x.snd.q.e_flags[i + 1]]
    IN  [x EXCEPT !.snd.q.masks = masks, !.snd.pc = "wait_peqt",
                  !.chanSR = Append(@, Msg("bytes", PeqtMasked(flags, masks)))]

\* Sender: the result of testAnyOne, ObliviousTransfer::send, the end of the
\* query; the next query or the end of runOnline
S_PeqtResultAndOTReady(x) ==
    /\ x.snd.pc = "wait_peqt"
    /\ Ready(x.chanRS, <<"u8">>)

S_PeqtResultAndOTDraws == [k0 : KeySamples, k1 : KeySamples]

S_PeqtResultAndOTStep(x, d) ==
    LET has_match == PeqtSenderResult(Head(x.chanRS).val, x.snd.q.masks)
        null_msg == VectorObject(NullAddr, D)
        q_j == VectorObject(QueryAddr(x.snd.j), D)
    IN  [x EXCEPT !.snd.has_match = has_match,
                  !.snd.matched_queries_ =
                      IF has_match THEN @ \cup {x.snd.j} ELSE @,
                  !.snd.j = @ + 1,
                  !.snd.q = SenderQueryLocals,
                  !.snd.pc = IF x.snd.j + 1 < x.snd.m_ THEN "query" ELSE "done",
                  !.chanRS = Drop(@, 1),
                  !.chanSR = @ \o <<Msg("vec", encryptMessage(null_msg, d.k0)),
                                    Msg("vec", encryptMessage(q_j, d.k1)),
                                    Msg("block", d.k0), Msg("block", d.k1)>>]

(* --------------------------- online: Receiver ------------------------- *)
\* Receiver: runOnline reads m_sender, clears the results, enters the loop
R_RunOnlineReady(x) ==
    /\ x.rcv.pc = "wait_m"
    /\ Ready(x.chanSR, <<"i32">>)

R_RunOnlineStep(x, d) ==
    [x EXCEPT !.rcv.m_sender = Head(x.chanSR).val,
              !.rcv.matched_sender_indices_ = {},
              !.rcv.fuzzy_intersection_ = <<>>,
              !.rcv.j = 0, !.rcv.q = ReceiverQueryLocals,
              !.rcv.online_comm_.bytes_received_ = @ + 4,
              !.rcv.pc = IF Head(x.chanSR).val > 0 THEN "round" ELSE "done",
              !.chanSR = Drop(@, 1)]

\* Receiver: one round of processQuery up to the receive of the masked sum:
\* the d_ ciphertexts and u, decryptVector, the block equalities, the shares
R_RoundReady(x) ==
    /\ x.rcv.pc = "round"
    /\ Ready(x.chanSR, Repeat("ct", D) \o <<"bytes">>)

R_RoundDraws == ShareSamples

R_RoundStep(x, drawn) ==
    LET cipher == [k \in 0..(D - 1) |-> x.chanSR[k + 1].val]
        u == x.chanSR[D + 1].val
        v == decryptVector(cipher)
        all_equal == [slot \in 0..(num_slots - 1) |-> AllEqual(u, v, slot)]
        shares == [slot \in 0..(num_slots - 1) |->
                      generateShares(all_equal[slot], all_equal[slot],
                                     drawn[slot])]
        shares_a == [slot \in 0..(num_slots - 1) |-> shares[slot].a]
        shares_b == [slot \in 0..(num_slots - 1) |-> shares[slot].b]
    IN  [x EXCEPT !.rcv.q.u = u, !.rcv.q.v = v,
                  !.rcv.q.all_equal = all_equal,
                  !.rcv.q.shares_a = shares_a,
                  !.rcv.q.shares_b = shares_b,
                  !.rcv.q.sum_diff = 0, !.rcv.q.match_count = 0,
                  !.rcv.online_comm_.bytes_received_ = @ + D * CiphertextBytes + D,
                  !.rcv.offline_comm_.bytes_sent_ = @ + num_slots * CiphertextBytes,
                  !.rcv.pc = "wait_sum",
                  !.chanRS = @ \o [i \in 1..num_slots |->
                                Msg("ct", encrypt(encode(Single(shares_a[i - 1]))))],
                  !.chanSR = Drop(@, D + 1)]

\* Receiver: the masked sum and the blind arrive; the flag of the round
R_ThresholdReady(x) ==
    /\ x.rcv.pc = "wait_sum"
    /\ Ready(x.chanSR, <<"ct", "u64">>)

R_ThresholdStep(x, d) ==
    LET sum_diff == SumDiff(x.chanSR[1].val, x.chanSR[2].val)
        e_j_ell == FlagOf(sum_diff)
    IN  [x EXCEPT !.rcv.q.sum_diff = sum_diff,
                  !.rcv.q.match_count = MatchCount(sum_diff),
                  !.rcv.q.e_flags = Append(@, e_j_ell),
                  !.rcv.q.ell = @ + 1,
                  !.rcv.q.u = <<>>, !.rcv.q.v = <<>>,
                  !.rcv.q.all_equal = <<>>,
                  !.rcv.q.shares_a = <<>>, !.rcv.q.shares_b = <<>>,
                  !.rcv.online_comm_.bytes_received_ = @ + CiphertextBytes + 8,
                  !.rcv.online_comm_.bytes_sent_ = @ + 1,
                  !.rcv.pc = IF x.rcv.q.ell + 1 < L THEN "round" ELSE "peqt",
                  !.chanRS = Append(@, Msg("u8", e_j_ell)),
                  !.chanSR = Drop(@, 2)]

\* Receiver: testAnyOne
R_PeqtReady(x) ==
    /\ x.rcv.pc = "peqt"
    /\ Ready(x.chanSR, <<"bytes">>)

R_PeqtStep(x, d) ==
    LET flags == [i \in 0..(Len(x.rcv.q.e_flags) - 1) |-> x.rcv.q.e_flags[i + 1]]
        result == PeqtReceiverResult(Head(x.chanSR).val, flags)
    IN  [x EXCEPT !.rcv.has_match = (result = 1), !.rcv.pc = "ot",
                  !.chanRS = Append(@, Msg("u8", result)),
                  !.chanSR = Drop(@, 1)]

\* what the Receiver finds behind the pointers it decrypted: they are
\* addresses of the Sender's process, so reading or freeing them in the
\* Receiver's is undefined; the process stops or goes on with the bytes its
\* own memory holds there
GarbageVectors == {Zero, Ones}

\* Receiver: ObliviousTransfer::receive, the push_back, the end of the query
R_OTReady(x) ==
    /\ x.rcv.pc = "ot"
    /\ Ready(x.chanSR, <<"vec", "vec", "block", "block">>)

R_OTDraws ==
    {[crash |-> TRUE, contents |-> <<>>]}
      \cup {[crash |-> FALSE, contents |-> c] : c \in GarbageVectors}

\* a query whose index is kept whatever the aggregated flag
R_OTStep_keeps_index(x, d) ==
    LET choice == IF x.rcv.has_match THEN 1 ELSE 0
        object == IF choice = 0
                  THEN decryptMessage(x.chanSR[1].val, x.chanSR[3].val)
                  ELSE decryptMessage(x.chanSR[2].val, x.chanSR[4].val)
    IN  IF d.crash
        THEN [x EXCEPT !.rcv.received_vector = [object |-> object, data |-> <<>>],
                       !.rcv.pc = "Crashed",
                       !.chanSR = Drop(@, 4)]
        ELSE [x EXCEPT
                !.rcv.received_vector = [object |-> object, data |-> d.contents],
                !.rcv.fuzzy_intersection_ =
                    IF x.rcv.has_match THEN Append(@, d.contents) ELSE @,
                !.rcv.matched_sender_indices_ = @ \cup {x.rcv.j},
                !.rcv.j = @ + 1,
                !.rcv.q = ReceiverQueryLocals,
                !.rcv.pc = IF x.rcv.j + 1 < x.rcv.m_sender THEN "round" ELSE "done",
                !.chanSR = Drop(@, 4)]

R_OTStep(x, d) ==
    LET choice == IF x.rcv.has_match THEN 1 ELSE 0
        object == IF choice = 0
                  THEN decryptMessage(x.chanSR[1].val, x.chanSR[3].val)
                  ELSE decryptMessage(x.chanSR[2].val, x.chanSR[4].val)
    IN  IF d.crash
        THEN [x EXCEPT !.rcv.received_vector = [object |-> object, data |-> <<>>],
                       !.rcv.pc = "Crashed",
                       !.chanSR = Drop(@, 4)]
        ELSE [x EXCEPT
                !.rcv.received_vector = [object |-> object, data |-> d.contents],
                !.rcv.fuzzy_intersection_ =
                    IF x.rcv.has_match THEN Append(@, d.contents) ELSE @,
                !.rcv.matched_sender_indices_ =
                    IF x.rcv.has_match THEN @ \cup {x.rcv.j} ELSE @,
                !.rcv.j = @ + 1,
                !.rcv.q = ReceiverQueryLocals,
                !.rcv.pc = IF x.rcv.j + 1 < x.rcv.m_sender THEN "round" ELSE "done",
                !.chanSR = Drop(@, 4)]

(* ------------------------------ actions ------------------------------- *)
R_RunOffline ==
    /\ R_RunOfflineReady(Session)
    /\ twin.on => R_RunOfflineReady(twin)
    /\ \E d \in SeedSamples :
         \E y \in {R_main(R_RunOfflineStep(Session, d))},
            z \in {IF twin.on THEN R_main(R_RunOfflineStep(twin, d)) ELSE twin} : Run(y, z)

R_BatchAck ==
    /\ R_BatchAckReady(Session)
    /\ twin.on => R_BatchAckReady(twin)
    /\ \E d \in NoDraw :
         \E y \in {R_main(R_BatchAckStep(Session, d))},
            z \in {IF twin.on THEN R_main(R_BatchAckStep(twin, d)) ELSE twin} : Run(y, z)

S_ReceiveOKVS ==
    /\ S_ReceiveOKVSReady(Session)
    /\ twin.on => S_ReceiveOKVSReady(twin)
    /\ \E d \in NoDraw :
         \E y \in {S_ReceiveOKVSStep(Session, d)},
            z \in {IF twin.on THEN S_ReceiveOKVSStep(twin, d) ELSE twin} : Run(y, z)

S_ReceiveCount ==
    /\ S_ReceiveCountReady(Session)
    /\ twin.on => S_ReceiveCountReady(twin)
    /\ \E d \in NoDraw :
         \E y \in {S_ReceiveCountStep(Session, d)},
            z \in {IF twin.on THEN S_ReceiveCountStep(twin, d) ELSE twin} : Run(y, z)

S_ReceiveBatch ==
    /\ S_ReceiveBatchReady(Session)
    /\ twin.on => S_ReceiveBatchReady(twin)
    /\ \E d \in NoDraw :
         \E y \in {S_ReceiveBatchStep(Session, d)},
            z \in {IF twin.on THEN S_ReceiveBatchStep(twin, d) ELSE twin} : Run(y, z)

S_ReceivePublicKey ==
    /\ S_ReceivePublicKeyReady(Session)
    /\ twin.on => S_ReceivePublicKeyReady(twin)
    /\ \E d \in NoDraw :
         \E y \in {S_ReceivePublicKeyStep(Session, d)},
            z \in {IF twin.on THEN S_ReceivePublicKeyStep(twin, d) ELSE twin} : Run(y, z)

S_RunOnline ==
    /\ S_RunOnlineReady(Session)
    /\ twin.on => S_RunOnlineReady(twin)
    /\ \E d \in NoDraw :
         \E y \in {S_main(S_RunOnlineStep(Session, d))},
            z \in {IF twin.on THEN S_main(S_RunOnlineStep(twin, d)) ELSE twin} : Run(y, z)

S_Round ==
    /\ S_RoundReady(Session)
    /\ twin.on => S_RoundReady(twin)
    /\ \E d \in S_RoundDraws(Session) :
         \E y \in {S_RoundStep(Session, d)},
            z \in {IF twin.on THEN S_RoundStep(twin, d) ELSE twin} : Run(y, z)

S_MaskedSum ==
    /\ S_MaskedSumReady(Session)
    /\ twin.on => S_MaskedSumReady(twin)
    /\ \E d \in S_MaskedSumDraws :
         \E y \in {S_MaskedSumStep(Session, d)},
            z \in {IF twin.on THEN S_MaskedSumStep(twin, d) ELSE twin} : Run(y, z)

S_Flag ==
    /\ S_FlagReady(Session)
    /\ twin.on => S_FlagReady(twin)
    /\ \E d \in NoDraw :
         \E y \in {S_FlagStep(Session, d)},
            z \in {IF twin.on THEN S_FlagStep(twin, d) ELSE twin} : Run(y, z)

S_PeqtSend ==
    /\ S_PeqtSendReady(Session)
    /\ twin.on => S_PeqtSendReady(twin)
    /\ \E d \in S_PeqtSendDraws(Session) :
         \E y \in {S_PeqtSendStep(Session, d)},
            z \in {IF twin.on THEN S_PeqtSendStep(twin, d) ELSE twin} : Run(y, z)

S_PeqtResultAndOT ==
    /\ S_PeqtResultAndOTReady(Session)
    /\ twin.on => S_PeqtResultAndOTReady(twin)
    /\ \E d \in S_PeqtResultAndOTDraws :
         \E y \in {S_main(S_PeqtResultAndOTStep(Session, d))},
            z \in {IF twin.on THEN S_main(S_PeqtResultAndOTStep(twin, d)) ELSE twin} : Run(y, z)

R_RunOnline ==
    /\ R_RunOnlineReady(Session)
    /\ twin.on => R_RunOnlineReady(twin)
    /\ \E d \in NoDraw :
         \E y \in {R_main(R_RunOnlineStep(Session, d))},
            z \in {IF twin.on THEN R_main(R_RunOnlineStep(twin, d)) ELSE twin} : Run(y, z)

R_Round ==
    /\ R_RoundReady(Session)
    /\ twin.on => R_RoundReady(twin)
    /\ \E d \in R_RoundDraws :
         \E y \in {R_RoundStep(Session, d)},
            z \in {IF twin.on THEN R_RoundStep(twin, d) ELSE twin} : Run(y, z)

R_Threshold ==
    /\ R_ThresholdReady(Session)
    /\ twin.on => R_ThresholdReady(twin)
    /\ \E d \in NoDraw :
         \E y \in {R_ThresholdStep(Session, d)},
            z \in {IF twin.on THEN R_ThresholdStep(twin, d) ELSE twin} : Run(y, z)

R_Peqt ==
    /\ R_PeqtReady(Session)
    /\ twin.on => R_PeqtReady(twin)
    /\ \E d \in NoDraw :
         \E y \in {R_PeqtStep(Session, d)},
            z \in {IF twin.on THEN R_PeqtStep(twin, d) ELSE twin} : Run(y, z)

R_OT ==
    /\ R_OTReady(Session)
    /\ twin.on => R_OTReady(twin)
    /\ \E d \in R_OTDraws :
         \E y \in {R_main(R_OTStep(Session, d))},
            z \in {IF twin.on THEN R_main(R_OTStep(twin, d)) ELSE twin} : Run(y, z)

(* --------------------------- specification ---------------------------- *)
Next ==
    \/ R_RunOffline
    \/ R_BatchAck
    \/ S_ReceiveOKVS
    \/ S_ReceiveCount
    \/ S_ReceiveBatch
    \/ S_ReceivePublicKey
    \/ S_RunOnline
    \/ S_Round
    \/ S_MaskedSum
    \/ S_Flag
    \/ S_PeqtSend
    \/ S_PeqtResultAndOT
    \/ R_RunOnline
    \/ R_Round
    \/ R_Threshold
    \/ R_Peqt
    \/ R_OT

\* one session
Spec == Init /\ [][Next]_vars

\* two sessions side by side, the same draws in both
SpecPair == InitPair /\ [][Next]_vars

\* one session with two batches of packed ciphertexts
SpecBatch == InitBatch /\ [][Next]_vars

(* ------------------------- the size of the OKVS ------------------------ *)
MaxCount == 100

\* the sizes of okvs_keys the model draws: the small ones, and the ones
\* next to each step of the band-length table
CountSamples ==
    (0..MaxCount)
      \cup UNION {{2^e - 1, 2^e, 2^e + 1} : e \in {14, 16, 18, 20, 22, 24}}

\* Receiver: runOffline of a Receiver whose vectors give "count" pairs
R_BuildOkvs ==
    /\ ~twin.on
    /\ R_RunOfflineReady(Session)
    /\ \E seed \in SeedSamples, count \in CountSamples :
         \E y \in {R_main(R_BuildOkvsStep(Session, seed, count, {}))} :
            Run(y, twin)

\* the offline phase up to the OKVS, for each size of okvs_keys
SpecOkvs == Init /\ [][R_BuildOkvs]_vars

(* ------------------------- a peer off the protocol --------------------- *)
\* the string chl.recv(ack) reads is whatever the peer sent: a peer that
\* answers a sync token with something other than "ACK"
WrongAck ==
    /\ ~twin.on
    /\ rcv.pc = "wait_ack"
    /\ chanSR # <<>> /\ Head(chanSR) = Msg("str", "ACK")
    /\ chanSR' = <<Msg("str", "NAK")>> \o Tail(chanSR)
    /\ UNCHANGED <<rcv, snd, chanRS, wire, twin, same_view>>

\* the string chl.recv(sync_msg) reads is whatever the peer sent: a peer
\* that ends batch b with the token of another batch
WrongToken ==
    /\ ~twin.on
    /\ S_ReceiveBatchReady(Session)
    /\ LET k == BatchSize(Session) + 1
       IN  /\ chanRS[k].val = SyncToken(snd.batch)
           /\ chanRS' = [chanRS EXCEPT ![k].val = SyncToken(snd.batch + 1)]
    /\ UNCHANGED <<rcv, snd, chanSR, wire, twin, same_view>>

\* the channel fails while both parties are inside processQuery: what is in
\* flight is lost, and from then on a receive raises at either party (the
\* exception Channel::recv passes on is a std::exception)
QueryInProgress ==
    /\ rcv.pc \in {"round", "wait_sum", "peqt", "ot"}
    /\ snd.pc \in {"query", "wait_shares", "wait_flag", "wait_peqt"}

ChannelError == <<Msg("error", "closed")>>

\* what a party sends after the failure changes nothing
ChannelFailed ==
    /\ chanRS # <<>> /\ Head(chanRS).kind = "error"
    /\ chanSR # <<>> /\ Head(chanSR).kind = "error"

ChannelDrop ==
    /\ ~twin.on
    /\ QueryInProgress /\ ~ChannelFailed
    /\ chanRS' = ChannelError /\ chanSR' = ChannelError
    /\ UNCHANGED <<rcv, snd, wire, twin, same_view>>

\* a Receiver that takes the failure for the end of the run
R_ChannelErrorStep_swallowed(x) == R_main([x EXCEPT !.rcv.pc = "done"])

\* Receiver: a channel operation raises; nothing between it and main
\* catches, so the exception ends runOffline or runOnline
R_ChannelErrorStep(x) == R_main([x EXCEPT !.rcv.pc = "Fatal"])

R_ChannelError ==
    /\ ~twin.on
    /\ ChannelFailed /\ rcv.pc \notin {"done", "Fatal", "Crashed"}
    /\ \E y \in {R_ChannelErrorStep(Session)} :
          /\ rcv' = y.rcv
          /\ UNCHANGED <<snd, chanRS, chanSR, wire, twin, same_view>>

\* Sender: a channel operation raises; the catch clauses of
\* extractVectorFromPacked enclose no channel operation
S_ChannelErrorStep(x) == S_main([x EXCEPT !.snd.pc = "Fatal"])

S_ChannelError ==
    /\ ~twin.on
    /\ ChannelFailed /\ snd.pc \notin {"done", "Fatal"}
    /\ \E y \in {S_ChannelErrorStep(Session)} :
          /\ snd' = y.snd
          /\ UNCHANGED <<rcv, chanRS, chanSR, wire, twin, same_view>>

NextDrop ==
    \/ Next
    \/ ChannelDrop
    \/ R_ChannelError
    \/ S_ChannelError

\* one session for each of the queries, the Receiver set and the subsets
\* being the first of their samples
InitDrop ==
    /\ \E Q \in QSets :
          LET W == CHOOSE w \in WSets : w[0] = Zero
              subsets == CHOOSE c \in SubsetChoices : 0 \in c[0]
          IN  /\ rcv = InitialReceiver(W, subsets)
              /\ snd = InitialSender(Q, subsets)
    /\ chanRS = <<>>
    /\ chanSR = <<>>
    /\ wire = NoWire
    /\ twin = NoTwin
    /\ same_view = TRUE

\* one session whose channel may fail in the middle of a query; each party
\* is a running process, so a step it can take is taken
SpecDrop ==
    /\ InitDrop /\ [][NextDrop]_vars
    /\ WF_vars(Next) /\ WF_vars(R_ChannelError) /\ WF_vars(S_ChannelError)

NextFault ==
    \/ Next
    \/ WrongAck
    \/ WrongToken

\* one session of two batches in which either party may meet a peer that
\* sends a wrong reply or a wrong token
SpecFault == InitBatch /\ [][NextFault]_vars

(* ------------------------------ claims -------------------------------- *)
\* both parties have run every query and left runOnline
Completed == rcv.pc = "done" /\ snd.pc = "done"

\* some w_i lies within delta of q_j and shares a fingerprint with it
NearAndShared(j) ==
    \E i \in DOMAIN rcv.W_ :
        /\ hammingDistance(snd.Q_[j], rcv.W_[i]) <= Delta
        /\ computeID(snd.Q_[j], snd.subsets_)
             \cap computeID(rcv.W_[i], rcv.subsets_) # {}

\* every w_i lies further than delta from q_j
Far(j) ==
    \A i \in DOMAIN rcv.W_ : hammingDistance(snd.Q_[j], rcv.W_[i]) > Delta

\* C1 (completeness): at the end of a completed session every query that is
\* within delta of some w_i and shares a fingerprint with it is in
\* fuzzy_intersection_, and its index in matched_sender_indices_.
C1_Completeness ==
    Completed =>
        \A j \in DOMAIN snd.Q_ :
            NearAndShared(j) =>
                /\ j \in rcv.matched_sender_indices_
                /\ \E x \in DOMAIN rcv.fuzzy_intersection_ :
                      rcv.fuzzy_intersection_[x] = snd.Q_[j]

\* C2 (soundness): a query further than delta from every w_i never has its
\* index in matched_sender_indices_, and when every query is such the
\* intersection stays empty.
C2_Soundness ==
    /\ \A j \in DOMAIN snd.Q_ : Far(j) => j \notin rcv.matched_sender_indices_
    /\ (\A j \in DOMAIN snd.Q_ : Far(j)) => rcv.fuzzy_intersection_ = <<>>

\* the Receiver's step that ends query rcv.j without stopping the process
QueryDelivered == rcv.pc = "ot" /\ rcv'.pc \in {"round", "done"}

\* C3 (delivery): the Receiver's delivery step of query j appends exactly
\* q_j when its aggregated flag is 1 and leaves the intersection as it was
\* when the flag is 0.
C3_Delivery ==
    [][QueryDelivered =>
          rcv'.fuzzy_intersection_ =
              IF rcv.has_match
              THEN Append(rcv.fuzzy_intersection_, snd.Q_[rcv.j])
              ELSE rcv.fuzzy_intersection_]_vars

\* C4 (OT round trip): what ObliviousTransfer::receive(c) returns against
\* ObliviousTransfer::send(null_msg, q_j) is the message m_c: the zero vector
\* for c = 0 and q_j for c = 1.
C4_OTRoundTrip ==
    [][QueryDelivered =>
          rcv'.received_vector.data =
              IF rcv.has_match THEN snd.Q_[rcv.j] ELSE Zero]_vars

\* the flags of the query the Receiver has just aggregated
AnyFlagSet == \E i \in DOMAIN rcv.q.e_flags : rcv.q.e_flags[i] = 1

\* C6 (PEqT any-one): with the same flag vector at both parties, testAnyOne
\* returns true to the Receiver, and to the Sender, exactly when some flag
\* is 1.
C6_PeqtAnyOne ==
    rcv.pc = "ot" =>
        /\ rcv.has_match <=> AnyFlagSet
        /\ snd.j = rcv.j + 1 => (snd.has_match <=> AnyFlagSet)

\* the Receiver has formed the shares of the round the Sender is in
SharesFormed == rcv.pc = "wait_sum" /\ snd.pc \in {"wait_shares", "wait_flag"}

\* C7 (ssPEQT share law): for every block of a round the shares satisfy
\* a XOR b = all_equal, for the b that generateShares returns and for the b
\* the Sender uses in the masked sum.
C7_ShareLaw ==
    SharesFormed =>
        \A slot \in 0..(num_slots - 1) :
            /\ XorBit(rcv.q.shares_a[slot], rcv.q.shares_b[slot])
                 = rcv.q.all_equal[slot]
            /\ snd.pc = "wait_flag" =>
                 XorBit(rcv.q.shares_a[slot], snd.q.shares_b[slot])
                   = rcv.q.all_equal[slot]

\* the Receiver has set the flag of the round the Sender is still in
FlagSet ==
    /\ snd.pc = "wait_flag"
    /\ Len(rcv.q.e_flags) = Len(snd.q.e_flags) + 1

\* the number of 8-bit blocks in which two vectors differ
BlocksDiffering(x, y) ==
    Cardinality({slot \in 0..(num_slots - 1) :
                    \E idx \in BlockCoords(slot) : x[idx] # y[idx]})

\* C8 (blinded-sum round trip): in a round with an in-range index the
\* magnitude of decoded[0] - random_mask is the number of 8-bit blocks in
\* which q_j and w_idx differ.
C8_BlindedSum ==
    (FlagSet /\ snd.q.hit) =>
        Abs(rcv.q.sum_diff)
          = BlocksDiffering(snd.Q_[snd.j], rcv.W_[snd.q.vec_index])

\* the flag the Receiver set last
LastFlag == rcv.q.e_flags[Len(rcv.q.e_flags)]

\* C9 as stated: the flag is 1 exactly when the recovered count is at most
\* floor(delta / 8), and that bit is what is sent.
C9_FlagAsStated ==
    FlagSet =>
        /\ LastFlag = 1 <=> Abs(rcv.q.sum_diff) <= Delta \div 8
        /\ chanRS = <<Msg("u8", LastFlag)>>

\* C9 (per-fingerprint flag, amended): the flag is 1 exactly when the
\* recovered count is at most floor(delta / 8) + 1, and that bit is the one
\* message sent to the Sender.
C9_Flag ==
    FlagSet =>
        /\ LastFlag = 1 <=> Abs(rcv.q.sum_diff) <= (Delta \div 8) + 1
        /\ chanRS = <<Msg("u8", LastFlag)>>

\* C9, the case: a recovered count of floor(delta / 8) + 1 sets the flag
C9_Witness ==
    /\ FlagSet
    /\ Abs(rcv.q.sum_diff) = (Delta \div 8) + 1
    /\ LastFlag = 1
    /\ chanRS = <<Msg("u8", 1)>>

\* C10 (masked homomorphic XOR): in a round with an in-range index the bit
\* the Receiver decrypts at k is r[k] XOR w_idx[k], and u[k] XOR v[k] is
\* q_j[k] XOR w_idx[k].
C10_MaskedXor ==
    (rcv.pc = "wait_sum" /\ snd.pc = "wait_shares" /\ snd.q.hit) =>
        \A k \in 0..(D - 1) :
            /\ rcv.q.v[k] = XorBit(snd.q.mask[k], rcv.W_[snd.q.vec_index][k])
            /\ XorBit(rcv.q.u[k], rcv.q.v[k])
                 = XorBit(snd.Q_[snd.j][k], rcv.W_[snd.q.vec_index][k])

\* the Receiver's aggregated flag of query 0 is 0
FlagZero ==
    \/ rcv.j = 0 /\ rcv.pc \in {"ot", "Crashed"} /\ ~rcv.has_match
    \/ rcv.j >= 1 /\ 0 \notin rcv.matched_sender_indices_

\* C5 (Receiver-side confidentiality): of two sessions that differ only in
\* the value of query 0 and make the same random choices, when the flag of
\* query 0 is 0 the two Receivers have received the same messages and hold
\* the same state.
C5_ReceiverView ==
    FlagZero => (same_view /\ rcv = twin.rcv)

\* C11 (OKVS hit round trip): for every (fingerprint f, index i) the Receiver
\* inserted, the Sender's decode of the key built for (f, i), of which it
\* takes the low 64 bits, gives vec_index = i.
C11_OkvsRoundTrip ==
    snd.pc # "start" =>
        \A i \in DOMAIN rcv.ID_W_ :
            \A f \in rcv.ID_W_[i] :
                \A pseudorandom \in PseudorandomBlocks(rcv.n_) :
                    DecodedIndex(f, i, snd.okvs_encoded_, pseudorandom) = i

\* the Sender is in a round, past extractVectorFromPacked
InRound == snd.pc \in {"wait_shares", "wait_flag"}

\* C12 (OKVS miss handling): the Sender reads packed_vectors_[idx] only for
\* idx < N; for an index decoded out of range, and for a decode that raised,
\* the vector it goes on with is d encryptions of zero; every round, dummy
\* or not, ends with a flag and none stops the Sender.
C12_MissHandling ==
    /\ InRound =>
          /\ snd.q.hit => /\ snd.q.vec_index < rcv.n_
                          /\ snd.q.enc_w = extractBitsFromPackedCipher(
                                             snd.packed_vectors_[snd.q.vec_index])
          /\ (snd.q.vec_index >= rcv.n_ \/ ~snd.q.hit) =>
                \A k \in 0..(D - 1) :
                    decode(decrypt(snd.q.enc_w[k])) = [s \in Slots |-> 0]
    /\ snd.pc = "query" =>
          /\ Len(snd.q.e_flags) = snd.q.ell
          /\ snd.q.dummy_rounds <= snd.q.ell
    /\ snd.pc # "Fatal"

\* C12, the case: a round whose decoded index is out of range has sent its
\* ciphertexts and waits for the flag
C12_Witness ==
    /\ snd.pc = "wait_flag"
    /\ snd.q.vec_index >= rcv.n_
    /\ ~snd.q.hit
    /\ \A k \in 0..(D - 1) : decode(decrypt(snd.q.enc_w[k])) = [s \in Slots |-> 0]

\* C13 (miss means no match): when every one of the L rounds of a query took
\* the dummy ciphertext vector, the Receiver's processQuery does not report a
\* match for it (and so stores nothing).
C13_MissNoMatch ==
    (rcv.pc = "ot" /\ snd.pc = "wait_peqt" /\ snd.q.dummy_rounds = L) =>
        ~rcv.has_match


(* ---------------------------- wire structure --------------------------- *)
RECURSIVE Cat(_, _)
\* n copies of the sequence s, one after the other
Cat(s, n) == IF n = 0 THEN <<>> ELSE s \o Cat(s, n - 1)

IsPrefix(s, t) == Len(s) <= Len(t) /\ SubSeq(t, 1, Len(s)) = s

RECURSIVE BatchWire(_)
\* the kinds of the batches of n packed ciphertexts, a token after each
BatchWire(n) ==
    IF n = 0 THEN <<>>
    ELSE Repeat("ct", Min(n, BATCH_SIZE)) \o <<"str">>
           \o BatchWire(n - Min(n, BATCH_SIZE))

\* the kinds of the Receiver's messages of the offline phase
OfflineWireRS(n) ==
    <<"u64", "blocks", "block", "i32", "i32", "i32", "i32">>
      \o BatchWire(n) \o <<"str">>

\* the kinds of the messages of one query, by direction
QueryWireRS == Cat(Repeat("ct", num_slots) \o <<"u8">>, L) \o <<"u8">>

QueryWireSR ==
    Cat(Repeat("ct", D) \o <<"bytes", "ct", "u64">>, L)
      \o <<"bytes">> \o <<"vec", "vec", "block", "block">>

\* the kinds of all messages of a session of n vectors and m queries
FullWireRS(n, m) == OfflineWireRS(n) \o Cat(QueryWireRS, m)

FullWireSR(n, m) == Repeat("str", NumBatches(n)) \o <<"i32">> \o Cat(QueryWireSR, m)

\* C14: the sequence of messages of a session (direction, kind, number) is
\* fixed by (M, N, d, L): what has been sent so far is the beginning of one
\* sequence that depends on nothing else, a completed session has sent all
\* of it, and two sessions that differ in the contents of Q, one taking the
\* OKVS hits and the other the misses, have sent the same sequence
C14_WireStructure ==
    /\ IsPrefix(wire.RS, FullWireRS(rcv.n_, M))
    /\ IsPrefix(wire.SR, FullWireSR(rcv.n_, M))
    /\ Completed => /\ wire.RS = FullWireRS(rcv.n_, M)
                    /\ wire.SR = FullWireSR(rcv.n_, M)
    /\ twin.on => twin.wire = wire

\* the last round of a query whose rounds all read a stored vector in one
\* session and all took the dummy vector in the other
C14_Witness ==
    /\ twin.on
    /\ snd.pc = "wait_flag" /\ snd.q.ell = L - 1
    /\ snd.q.hit /\ snd.q.dummy_rounds = 0
    /\ twin.snd.q.dummy_rounds = L
    /\ twin.snd.Q_ # snd.Q_
    /\ twin.wire = wire


(* ------------------------- per-query state machine --------------------- *)
\* C15: in every query both parties run exactly L fingerprint rounds, then
\* the PEqT, then the OT, in that order: a round starts only while fewer
\* than L rounds have ended, the PEqT starts only from the end of round L
\* with L flags, the OT only from the PEqT, the query ends only from the OT;
\* and the Sender's round count min(|ids|, L) is L for every query
C15_QueryStateMachine ==
    [][/\ \A j \in DOMAIN snd'.ID_Q_ : max_iterations(snd'.ID_Q_[j]) = L
       /\ (snd.pc = "query" /\ snd'.pc = "wait_shares") => snd.q.ell < L
       /\ (snd.pc # "wait_peqt" /\ snd'.pc = "wait_peqt") =>
              /\ snd.pc = "query"
              /\ snd.q.ell = L /\ Len(snd.q.e_flags) = L
       /\ snd'.j = snd.j + 1 =>
              /\ snd.pc = "wait_peqt"
              /\ NewKinds(chanSR, chanSR') = <<"vec", "vec", "block", "block">>
       /\ (rcv.pc # "wait_sum" /\ rcv'.pc = "wait_sum") =>
              rcv.pc = "round" /\ rcv.q.ell < L
       /\ (rcv.pc # "peqt" /\ rcv'.pc = "peqt") =>
              /\ rcv.pc = "wait_sum"
              /\ rcv'.q.ell = L /\ Len(rcv'.q.e_flags) = L
       /\ (rcv.pc # "ot" /\ rcv'.pc = "ot") => rcv.pc = "peqt"
       /\ rcv'.j = rcv.j + 1 => rcv.pc = "ot"]_vars

\* both parties have ended a query: L rounds, the PEqT and the OT are on
\* the wire
C15_Witness ==
    /\ M > 0 /\ snd.j = 1 /\ rcv.j = 1
    /\ Len(wire.SR) = Len(FullWireSR(rcv.n_, 1))
    /\ Len(wire.RS) = Len(FullWireRS(rcv.n_, 1))


(* ----------------------------- offline order --------------------------- *)
\* the Sender is in its offline phase
SenderOffline == snd.pc \in {"start", "wait_n", "wait_batch", "wait_pk"}

\* the kind of the message the Sender's next receive of the offline phase
\* reads: a ciphertext while the batch has some left, then the token
SenderExpects ==
    CASE snd.pc = "start" -> "u64"
      [] snd.pc = "wait_n" -> "i32"
      [] snd.pc = "wait_batch" -> "ct"
      [] OTHER -> "str"

\* the number of pairs the Receiver encoded
OkvsCount == Cardinality(OkvsPairs(rcv.ID_W_))

\* C16: the Receiver's offline messages go out in the order okvs length,
\* OKVS blocks, seed, m_okvs, band length, item count, N, the packed
\* ciphertexts batch by batch, the public key; every receive of the Sender
\* finds the kind it reads and stores what the Receiver sent in that place;
\* the Sender ends the offline phase with exactly N packed ciphertexts, the
\* i-th being the one of the Receiver's i-th vector
C16_OfflineOrder ==
    /\ LET k == Min(Len(wire.RS), Len(OfflineWireRS(rcv.n_)))
       IN  SubSeq(wire.RS, 1, k) = SubSeq(OfflineWireRS(rcv.n_), 1, k)
    /\ (SenderOffline /\ chanRS # <<>>) => Head(chanRS).kind = SenderExpects
    /\ snd.pc # "start" =>
          /\ snd.okvs_encoded_ = rcv.okvs_encoded_
          /\ snd.okvs_seed_ = rcv.okvs_seed_
          /\ snd.okvs_m_ = OkvsM(OkvsCount)
          /\ snd.okvs_band_length_ = okvsBandLength(OkvsCount)
          /\ snd.okvs_n_items_ = OkvsCount
    /\ snd.pc \notin {"start", "wait_n"} =>
          /\ snd.n_receiver_ = rcv.n_
          /\ DOMAIN snd.packed_vectors_ = 0..(rcv.n_ - 1)
          /\ \A i \in 0..(Min(snd.batch * BATCH_SIZE, rcv.n_) - 1) :
                snd.packed_vectors_[i] = PackVector(rcv.W_[i])
    /\ ~SenderOffline =>
          /\ \A i \in 0..(rcv.n_ - 1) :
                snd.packed_vectors_[i] = PackVector(rcv.W_[i])
          /\ snd.encryptor_ = "public_key"
          /\ Len(wire.RS) >= Len(OfflineWireRS(rcv.n_))

\* the Sender at the end of an offline phase of two batches, holding the
\* packed ciphertexts of two different vectors in the Receiver's order
C16_Witness ==
    /\ snd.pc = "online"
    /\ rcv.n_ = NBatch /\ snd.batch = 2
    /\ rcv.W_[0] # rcv.W_[1]
    /\ snd.packed_vectors_[0] = PackVector(rcv.W_[0])
    /\ snd.packed_vectors_[NBatch - 1] = PackVector(rcv.W_[NBatch - 1])
    /\ snd.packed_vectors_[0] # snd.packed_vectors_[1]


(* ---------------------------- batch handshake -------------------------- *)
\* the Receiver's messages of the packed-ciphertext transfer sent so far:
\* what follows the OKVS tuple and N, up to the public key
TransferSent ==
    LET first == Len(OfflineWireRS(0)) - 1
        last == Min(Len(wire.RS), Len(OfflineWireRS(rcv.n_)) - 1)
    IN  IF last > first THEN SubSeq(wire.RS, first + 1, last) ELSE <<>>

CountKind(s, kind) == Cardinality({i \in 1..Len(s) : s[i] = kind})

\* the packed ciphertexts of the batches whose ACK the Receiver has read
Acknowledged == Min(rcv.batch * BATCH_SIZE, rcv.n_)

\* C17: while the packed ciphertexts are transferred the Receiver has sent
\* the ciphertexts of no batch beyond the first one whose ACK it has not
\* read: at most BATCH_SIZE packed ciphertexts and one sync token are sent
\* and not acknowledged, and no more than that waits in the channel
C17_BatchBound ==
    /\ CountKind(TransferSent, "ct") <= Min((rcv.batch + 1) * BATCH_SIZE, rcv.n_)
    /\ CountKind(TransferSent, "ct") - Acknowledged <= BATCH_SIZE
    /\ CountKind(TransferSent, "str") - rcv.batch <= 1
    /\ SenderOffline =>
          /\ Cardinality({i \in 1..Len(chanRS) : chanRS[i].kind = "ct"}) <= BATCH_SIZE
          /\ Len(chanSR) <= 1

\* a full first batch and its token are sent and not acknowledged, and the
\* Receiver has a further vector to send
C17_Witness ==
    /\ rcv.pc = "wait_ack" /\ rcv.batch = 0 /\ rcv.n_ > BATCH_SIZE
    /\ CountKind(TransferSent, "ct") = BATCH_SIZE
    /\ CountKind(TransferSent, "str") = 1
    /\ snd.pc = "wait_batch"


(* ------------------------------ termination ---------------------------- *)
\* C18: with the same (d, delta, L) at both parties and a reliable ordered
\* channel no party waits for a message the other will not send: a session
\* stops only when both parties have finished, the Receiver having
\* processed exactly the M queries the Sender announced, and then both
\* directions of the channel are empty
C18_Termination ==
    /\ Completed \/ ENABLED Next
    /\ Completed => /\ rcv.m_sender = M /\ rcv.j = M /\ snd.j = M
                    /\ chanRS = <<>> /\ chanSR = <<>>


(* --------------------------- handshake errors -------------------------- *)
\* the reply that waits for the Receiver after a sync token is not "ACK"
WrongAckWaits ==
    rcv.pc = "wait_ack" /\ chanSR # <<>> /\ Head(chanSR).val # "ACK"

\* C19: when the reply the Receiver reads after a sync token is not the
\* string ACK the Receiver raises a fatal error: reading it sends nothing,
\* and from then on the Receiver sends no ciphertext and no public key and
\* does not enter the online phase
C19_WrongAckAborts ==
    [][/\ (WrongAckWaits /\ rcv' # rcv) =>
              rcv'.pc = "Fatal" /\ wire'.RS = wire.RS
       /\ rcv.pc = "Fatal" => rcv'.pc = "Fatal" /\ wire'.RS = wire.RS]_vars

\* the Receiver has stopped on the reply to its first batch: the second
\* batch and the public key are not sent
C19_Witness ==
    /\ rcv.pc = "Fatal" /\ rcv.batch = 0 /\ rcv.n_ > BATCH_SIZE
    /\ CountKind(TransferSent, "ct") = BATCH_SIZE
    /\ Len(wire.RS) < Len(OfflineWireRS(rcv.n_))
    /\ chanSR = <<>>

\* the token that ends the batch that waits for the Sender is not the
\* token of that batch
WrongTokenWaits ==
    /\ S_ReceiveBatchReady(Session)
    /\ chanRS[BatchSize(Session) + 1].val # SyncToken(snd.batch)

\* C20: when the token the Sender reads after batch b is not the token of
\* batch b the Sender raises a fatal error: it sends no ACK for it, and
\* from then on it does not enter the online phase
C20_WrongTokenAborts ==
    [][/\ (WrongTokenWaits /\ snd' # snd) =>
              snd'.pc = "Fatal" /\ wire'.SR = wire.SR
       /\ snd.pc = "Fatal" => snd'.pc = "Fatal"]_vars

(* ------------------------------ exit status ---------------------------- *)
\* C21: a party whose runOffline or runOnline raised an error has ended
\* with exit status 1 and has written no result (no match count, no
\* intersection size); a party that ran both to their end has ended with
\* exit status 0 and has written its results; no party writes a result or
\* ends in any other place
C21_FatalOutcome ==
    /\ rcv.pc = "Fatal" => rcv.ended /\ rcv.exit_status = 1 /\ rcv.stdout = <<>>
    /\ snd.pc = "Fatal" => snd.ended /\ snd.exit_status = 1 /\ snd.stdout = <<>>
    /\ rcv.pc = "done" =>
          rcv.ended /\ rcv.exit_status = 0 /\ rcv.stdout = R_Results(rcv)
    /\ snd.pc = "done" =>
          snd.ended /\ snd.exit_status = 0 /\ snd.stdout = S_Results(snd)
    /\ rcv.pc \notin {"Fatal", "done"} => ~rcv.ended /\ rcv.stdout = <<>>
    /\ snd.pc \notin {"Fatal", "done"} => ~snd.ended /\ snd.stdout = <<>>

\* the Receiver has ended on the error of a wrong reply, the Sender went on
C21_Witness ==
    /\ rcv.pc = "Fatal" /\ rcv.ended /\ rcv.exit_status = 1
    /\ rcv.stdout = <<>>
    /\ snd.pc \notin {"start", "wait_n", "wait_batch"}

(* ----------------------------- channel failure ------------------------- *)
BothFatal ==
    /\ rcv.pc = "Fatal" /\ rcv.ended /\ rcv.exit_status = 1
    /\ snd.pc = "Fatal" /\ snd.ended /\ snd.exit_status = 1

StringsInFlight ==
    {chanRS[i].val : i \in {k \in 1..Len(chanRS) : chanRS[k].kind = "str"}}

\* C23: no message the Receiver sends holds the secret key, the only key on
\* the wire being the saved public key; the Sender's encryptor is built from
\* the public key it received, and the Sender has no secret key and no
\* decryptor
C23_KeyConfinement ==
    /\ rcv.secret_key_ \notin StringsInFlight
    /\ rcv.secret_key_ # rcv.public_key_
    /\ snd.encryptor_ \in {"none", rcv.public_key_}
    /\ ~SenderOffline => snd.encryptor_ = rcv.public_key_
    /\ {"secret_key_", "decryptor_"} \cap DOMAIN snd = {}

\* the public key is in flight to the Sender
C23_Witness ==
    /\ snd.pc = "wait_pk"
    /\ rcv.public_key_ \in StringsInFlight
    /\ snd.encryptor_ = "none"

(* -------------------------------- packing ------------------------------ *)
\* the places in the Receiver's channel of the packed ciphertexts in flight
PackedInFlight ==
    IF SenderOffline
    THEN {k \in 1..Len(chanRS) : chanRS[k].kind = "ct"}
    ELSE {}

\* the index of the vector whose packed ciphertext is at place k: the
\* Sender has taken the batches before, the ciphertexts go in order
VectorAt(k) ==
    Min(snd.batch * BATCH_SIZE, rcv.n_)
      + Cardinality({h \in PackedInFlight : h < k})

\* C24: the plaintext the Receiver encrypts as packed ciphertext i has slot
\* j equal to W[i][j] for every j < d and every other slot zero, and the
\* Receiver produces and sends exactly one packed ciphertext per vector
C24_Packing ==
    /\ \A k \in PackedInFlight :
          LET plain == decode(decrypt(chanRS[k].val))
              i == VectorAt(k)
          IN  /\ i \in 0..(rcv.n_ - 1)
              /\ DOMAIN plain = Slots
              /\ \A j \in Slots :
                    plain[j] = IF j < D THEN rcv.W_[i][j] ELSE 0
    /\ rcv.pc \notin {"start", "wait_ack", "Fatal"} =>
          CountKind(TransferSent, "ct") = rcv.n_

\* the packed ciphertexts of two different vectors are in flight
C24_Witness ==
    /\ Cardinality(PackedInFlight) = rcv.n_ /\ rcv.n_ >= 2
    /\ rcv.W_[0] # rcv.W_[1]
    /\ \E k \in PackedInFlight :
          /\ VectorAt(k) = 1
          /\ \E j \in 0..(D - 1) : decode(decrypt(chanRS[k].val))[j] = 1

RECURSIVE XorOver(_, _)
\* the XOR of v[j] over the positions j of S
XorOver(v, S) ==
    IF S = {} THEN 0
    ELSE LET j == CHOOSE h \in S : TRUE
         IN  (v[j] + XorOver(v, S \ {j})) % 2

\* the string l||p
Fingerprint(l, p) == Digits(l) \o <<124, 124>> \o <<48 + p>>

\* the fingerprint of subset l in a set of fingerprints
FingerprintOf(ids, l) ==
    CHOOSE s \in ids :
        /\ Len(s) > Len(Digits(l)) + 2
        /\ SubSeq(s, 1, Len(Digits(l)) + 2) = Digits(l) \o <<124, 124>>

\* v with the bit at position k flipped
Flip(v, k) == [v EXCEPT ![k] = 1 - @]

\* C26: for every binary vector v of length d computeID(v) is a set of
\* exactly L strings, the one of subset l being l||p with p the XOR of v[j]
\* over the positions j of S_l; a vector that differs from v only outside
\* S_l has the same l-th fingerprint; the fingerprint sets the parties hold
\* are the ones of their vectors
C26_Fingerprints ==
    /\ rcv.pc = "start" =>
          \A v \in BitVec(D) :
             LET ids == computeID(v, rcv.subsets_)
             IN  /\ Cardinality(ids) = L
                 /\ \A l \in 0..(L - 1) :
                       /\ Fingerprint(l, XorOver(v, rcv.subsets_[l])) \in ids
                       /\ \A k \in (0..(D - 1)) \ rcv.subsets_[l] :
                             FingerprintOf(computeID(Flip(v, k), rcv.subsets_), l)
                                = FingerprintOf(ids, l)
    /\ rcv.pc # "start" =>
          \A i \in DOMAIN rcv.W_ :
             /\ Cardinality(rcv.ID_W_[i]) = L
             /\ \A l \in 0..(L - 1) :
                   Fingerprint(l, XorOver(rcv.W_[i], rcv.subsets_[l])) \in rcv.ID_W_[i]

\* the Receiver holds the fingerprints of a vector of odd parity on S_0
C26_Witness ==
    /\ rcv.pc = "wait_ack"
    /\ \E i \in DOMAIN rcv.W_ :
          /\ XorOver(rcv.W_[i], rcv.subsets_[0]) = 1
          /\ Cardinality(rcv.ID_W_[i]) = L
          /\ Fingerprint(0, 1) \in rcv.ID_W_[i]

(* ----------------------------- OKVS parameters ------------------------- *)
\* the Receiver has run buildAndSendOKVS, the Sender has read nothing yet
OkvsBuilt == rcv.pc # "start" /\ snd.pc = "start"

\* the band length the Receiver sent
BandLengthSent == chanRS[5].val

\* C27: okvsBandLength(n) is 339 for n <= 2^14, 350 up to 2^16, 366 up to
\* 2^18, 377 up to 2^20, 396 up to 2^22, 413 up to 2^24; for n > 2^24 it
\* raises, no OKVS message is sent and the Receiver ends with exit status 1
C27_BandLength ==
    OkvsBuilt =>
       LET n == rcv.okvs_keys_size
       IN  /\ n > 2^24 =>
                /\ rcv.pc = "Fatal" /\ rcv.ended /\ rcv.exit_status = 1
                /\ chanRS = <<>> /\ wire.RS = <<>>
           /\ n <= 2^24 =>
                /\ rcv.pc # "Fatal"
                /\ chanRS[6] = Msg("i32", n)
                /\ BandLengthSent =
                      CASE n <= 2^14 -> 339
                        [] n > 2^14 /\ n <= 2^16 -> 350
                        [] n > 2^16 /\ n <= 2^18 -> 366
                        [] n > 2^18 /\ n <= 2^20 -> 377
                        [] n > 2^20 /\ n <= 2^22 -> 396
                        [] OTHER -> 413

\* the Receiver has stopped on a set of more than 2^24 pairs
C27_Witness ==
    /\ rcv.okvs_keys_size = 2^24 + 1
    /\ rcv.pc = "Fatal" /\ rcv.exit_status = 1
    /\ chanRS = <<>>

\* the m_okvs the Receiver sent
OkvsMSent == chanRS[4].val

\* C28: the m_okvs the Receiver sends is ceil(1.05 * |pairs|) for every
\* number of pairs it inserts
C28_OkvsSize ==
    /\ (OkvsBuilt /\ rcv.pc # "Fatal") =>
          OkvsMSent = (105 * rcv.okvs_keys_size + 99) \div 100
    /\ snd.pc # "start" =>
          snd.okvs_m_ = (105 * rcv.okvs_keys_size + 99) \div 100

(* --------------------- bit extraction, block equality ------------------ *)
\* the slots of the plaintext a ciphertext encrypts
SlotsOf(cipher) == decode(decrypt(cipher))

\* C29: the k-th ciphertext extractBitsFromPackedCipher returns for a packed
\* ciphertext encrypts a plaintext whose slot k is w_idx[k] and whose other
\* slots are zero, for every k < d
C29_BitExtraction ==
    (InRound /\ snd.q.hit) =>
        LET w_idx == SlotsOf(snd.packed_vectors_[snd.q.vec_index])
        IN  /\ DOMAIN snd.q.enc_w = 0..(D - 1)
            /\ \A k \in 0..(D - 1) : \A s \in Slots :
                  SlotsOf(snd.q.enc_w[k])[s] = IF s = k THEN w_idx[k] ELSE 0

\* the bits of a stored vector of ones have been extracted
C29_Witness ==
    /\ InRound /\ snd.q.hit
    /\ rcv.W_[snd.q.vec_index] = Ones
    /\ \A k \in 0..(D - 1) : SlotsOf(snd.q.enc_w[k])[k] = 1

\* C30: in every round the Receiver forms ceil(d/8) blocks, and all_equal
\* of block s is 1 exactly when u[j] = v[j] for every coordinate j of the
\* block that is below d (the last block may be partial)
C30_BlockEquality ==
    rcv.pc = "wait_sum" =>
        /\ DOMAIN rcv.q.all_equal = 0..(((D + 7) \div 8) - 1)
        /\ \A s \in DOMAIN rcv.q.all_equal :
              (rcv.q.all_equal[s] = 1) <=>
                 \A j \in (8 * s)..(8 * s + 7) :
                    j < D => rcv.q.u[j] = rcv.q.v[j]

\* a round with a partial last block whose first block agrees on its first
\* coordinate and differs on a later one
C30_Witness ==
    /\ rcv.pc = "wait_sum"
    /\ D % 8 # 0
    /\ ((D + 7) \div 8) - 1 \in DOMAIN rcv.q.all_equal
    /\ rcv.q.u[0] = rcv.q.v[0]
    /\ \E j \in 1..7 : rcv.q.u[j] # rcv.q.v[j]
    /\ rcv.q.all_equal[0] = 0

(* ------------------- testAnyOne on flags of any kind ------------------- *)
\* the flag vectors testAnyOne is called with: every bit vector of a length
\* from 1 to L, as the sequence processQuery keeps
FlagVectors(n) == {[i \in 1..n |-> f[i - 1]] : f \in BitVec(n)}

\* the two parties at their calls of testAnyOne, the Sender with the flags
\* eS, the Receiver with the flags eR of the same length
InitPeqt ==
    /\ \E n \in 1..L : \E eS \in FlagVectors(n), eR \in FlagVectors(n) :
          /\ rcv = [InitialReceiver(CHOOSE W \in WSets : TRUE,
                                    CHOOSE c \in SubsetChoices : TRUE)
                      EXCEPT !.pc = "peqt", !.m_sender = M,
                             !.q.ell = n, !.q.e_flags = eR]
          /\ snd = [InitialSender(CHOOSE Q \in QSets : TRUE,
                                  CHOOSE c \in SubsetChoices : TRUE)
                      EXCEPT !.pc = "query", !.q.ell = n, !.q.e_flags = eS]
    /\ chanRS = <<>>
    /\ chanSR = <<>>
    /\ wire = NoWire
    /\ twin = NoTwin
    /\ same_view = TRUE

\* testAnyOne(flags, chl, prng, true) up to its receive
T_PeqtSend ==
    /\ snd.pc = "query"
    /\ \E masks \in S_PeqtSendDraws(Session) :
         \E y \in {S_PeqtSendStep(Session, masks)} : Run(y, twin)

\* testAnyOne(flags, chl, prng, false)
T_PeqtReceive ==
    /\ R_PeqtReady(Session)
    /\ \E y \in {R_PeqtStep(Session, <<>>)} : Run(y, twin)

\* testAnyOne(flags, chl, prng, true) from its receive on
T_PeqtResult ==
    /\ S_PeqtResultAndOTReady(Session)
    /\ \E d \in S_PeqtResultAndOTDraws :
         \E y \in {S_PeqtResultAndOTStep(Session, d)} : Run(y, twin)

NextPeqt == T_PeqtSend \/ T_PeqtReceive \/ T_PeqtResult

SpecPeqt == InitPeqt /\ [][NextPeqt]_vars

\* the Receiver has sent its result r, the Sender has not yet read it
PeqtAnswered == rcv.pc = "ot" /\ snd.pc = "wait_peqt" /\ Len(chanRS) = 1

\* OR over l of m_l
OrOf(m) == IF \E l \in DOMAIN m : m[l] = 1 THEN 1 ELSE 0

\* C31 (PEqT consistency law): for all flag vectors eS, eR and masks m of
\* one length, the Receiver's r = OR_l((eS_l XOR m_l) XOR eR_l) equals
\* OR_l m_l if and only if eS = eR
C31_PeqtConsistency ==
    PeqtAnswered =>
        ((chanRS[1].val = OrOf(snd.q.masks)) <=> (snd.q.e_flags = rcv.q.e_flags))

(* --------------------------- the blinded sum --------------------------- *)
RECURSIVE ShareSum(_, _, _)
\* the integer sum of a_s - b_s over the blocks 0..i
ShareSum(a, b, i) ==
    IF i < 0 THEN 0 ELSE ShareSum(a, b, i - 1) + (a[i] - b[i])

\* the Receiver takes the masked sum of the round off the channel
ThresholdTaken == rcv.pc = "wait_sum" /\ rcv'.pc # "wait_sum"

\* C32 (no modular wraparound): in every round, for the shares a_s, b_s and
\* every blind the Sender can draw, decoded[0] - random_mask as the Receiver
\* computes it is the integer sum over s of (a_s - b_s)
C32_NoWraparound ==
    [][ThresholdTaken =>
          rcv'.q.sum_diff
            = ShareSum(rcv.q.shares_a, snd.q.shares_b, num_slots - 1)]_vars

(* --------------------------- the PEqT on the wire ---------------------- *)
\* the Sender's PEqT message is on the channel, the Receiver is to read it
PeqtSent == snd.pc = "wait_peqt" /\ rcv.pc = "peqt"

\* C33 as stated: the Sender's PEqT message is ceil(L/8)*8 bytes long, the
\* Receiver's reply is one byte, and the Receiver reads as many bytes as the
\* Sender wrote
C33_PeqtWireAsStated ==
    /\ PeqtSent =>
          /\ MsgBytes(chanSR[1]) = ((L + 7) \div 8) * 8
          /\ Len(rcv.q.e_flags) = MsgBytes(chanSR[1])
    /\ PeqtAnswered => MsgBytes(chanRS[1]) = 1

\* C33 (PEqT wire size): the Sender's PEqT message is one byte for each flag
\* of the query, L bytes, the Receiver's reply is one byte, and the Receiver
\* reads as many bytes as the Sender wrote
C33_PeqtWire ==
    /\ PeqtSent =>
          /\ Len(chanSR) = 1 /\ chanSR[1].kind = "bytes"
          /\ MsgBytes(chanSR[1]) = Len(snd.q.e_flags)
          /\ MsgBytes(chanSR[1]) = L
          /\ Len(rcv.q.e_flags) = MsgBytes(chanSR[1])
    /\ PeqtAnswered =>
          /\ chanRS[1].kind = "u8"
          /\ MsgBytes(chanRS[1]) = 1

\* the Receiver has replied to a PEqT message of L bytes
C33_Witness ==
    /\ PeqtAnswered
    /\ Len(wire.SR) > 0 /\ wire.SR[Len(wire.SR)] = "bytes"
    /\ Cardinality(DOMAIN snd.q.masks) = L
    /\ MsgBytes(chanRS[1]) = 1

(* ----------------------- the E-LSH constructor ------------------------- *)
\* the parameters ELSHFmap is constructed with in the model
MaxDim == 5

MaxDelta == 2

MaxL == 2

\* static_cast<int>(std::ceil(static_cast<double>(d) / (delta + 1)))
SubsetSize(d, delta) == (d + delta) \div (delta + 1)

\* entropy_dims after std::sort: the dimensions by falling entropy; the
\* model takes the two orders in which the entropies fall or rise with the
\* dimension
SortedDims(d, order) ==
    [i \in 1..d |-> IF order = "falling" THEN i - 1 ELSE d - i]

RECURSIVE SelectLoop(_, _, _, _)
\* selectHighEntropyDimensions, first loop, up to entry i of entropy_dims:
\* the first "above" entries have an entropy over tau_
SelectLoop(sorted, above, need, i) ==
    IF i = 0 THEN <<>>
    ELSE LET dims == SelectLoop(sorted, above, need, i - 1)
         IN  IF i <= above \/ Len(dims) < need
             THEN Append(dims, sorted[i]) ELSE dims

RECURSIVE EnsureLoop(_, _, _, _)
\* selectHighEntropyDimensions, second loop, the dimensions below i
EnsureLoop(dims, d, need, i) ==
    IF i = 0 THEN dims
    ELSE LET before == EnsureLoop(dims, d, need, i - 1)
         IN  IF Len(before) < need /\ ~(\E n \in 1..Len(before) : before[n] = i - 1)
             THEN Append(before, i - 1) ELSE before

\* a selection that keeps the dimensions over tau_ and no others
selectHighEntropyDimensions_above_tau(d, k, l, sorted, above) ==
    SubSeq(sorted, 1, above)

\* ELSHFmap::selectHighEntropyDimensions: high_entropy_dims_
selectHighEntropyDimensions(d, k, l, sorted, above) ==
    LET need == k * l
    IN  EnsureLoop(SelectLoop(sorted, above, need, d), d, need, d)

\* the outcomes of std::shuffle in the model: the list as it is, reversed,
\* and turned by one place
ShuffleSamples == {"same", "reversed", "turned"}

Shuffled(candidates, how) ==
    LET n == Len(candidates)
    IN  [i \in 1..n |->
           CASE how = "same" -> candidates[i]
             [] how = "reversed" -> candidates[n + 1 - i]
             [] how = "turned" -> candidates[(i % n) + 1]]

\* ELSHFmap::generateRandomSubsets: subsets_
generateRandomSubsets(high_entropy_dims, k, l, shuffles) ==
    [s \in 0..(l - 1) |->
        LET candidates == Shuffled(high_entropy_dims, shuffles[s])
            size == IF k < Len(candidates) THEN k ELSE Len(candidates)
        IN  SubSeq(candidates, 1, size)]

\* the arguments d >= 1, delta >= 0, L >= 1 of the constructor, the number
\* of dimensions whose entropy is over tau, and their order by entropy
InitElsh ==
    /\ \E d \in 1..MaxDim, delta \in 0..MaxDelta, l \in 1..MaxL :
         \E above \in 0..d, order \in {"falling", "rising"} :
            rcv = [pc |-> "new", d_ |-> d, delta_ |-> delta, L_ |-> l,
                   above_tau |-> above, order |-> order]
    /\ snd = [pc |-> "none"]
    /\ chanRS = <<>>
    /\ chanSR = <<>>
    /\ wire = NoWire
    /\ twin = NoTwin
    /\ same_view = TRUE

\* ELSHFmap::ELSHFmap(d, delta, L, tau)
ELSHFmap_new ==
    /\ rcv.pc = "new"
    /\ \E shuffles \in [0..(rcv.L_ - 1) -> ShuffleSamples] :
         LET k == SubsetSize(rcv.d_, rcv.delta_)
             dims == selectHighEntropyDimensions(
                         rcv.d_, k, rcv.L_,
                         SortedDims(rcv.d_, rcv.order), rcv.above_tau)
         IN  rcv' = [pc |-> "constructed", d_ |-> rcv.d_, delta_ |-> rcv.delta_,
                     L_ |-> rcv.L_, k_ |-> k, high_entropy_dims_ |-> dims,
                     subsets_ |-> generateRandomSubsets(dims, k, rcv.L_, shuffles)]
    /\ UNCHANGED <<snd, chanRS, chanSR, wire, twin, same_view>>

SpecElsh == InitElsh /\ [][ELSHFmap_new]_vars

\* C34 (E-LSH subsets): after ELSHFmap(d, delta, L, tau) with d >= 1,
\* delta >= 0, L >= 1, k_ is ceil(d / (delta + 1)), subsets_ has exactly L
\* entries, and every entry is a list of exactly k_ pairwise distinct
\* indices in [0, d)
C34_Subsets ==
    rcv.pc = "constructed" =>
        /\ rcv.k_ * (rcv.delta_ + 1) >= rcv.d_
        /\ (rcv.k_ - 1) * (rcv.delta_ + 1) < rcv.d_
        /\ DOMAIN rcv.subsets_ = 0..(rcv.L_ - 1)
        /\ \A s \in DOMAIN rcv.subsets_ :
              /\ Len(rcv.subsets_[s]) = rcv.k_
              /\ \A i \in 1..rcv.k_ : rcv.subsets_[s][i] \in 0..(rcv.d_ - 1)
              /\ \A i, j \in 1..rcv.k_ :
                    i # j => rcv.subsets_[s][i] # rcv.subsets_[s][j]

\* a constructor whose pool is smaller than d and was filled past the
\* dimensions over tau, with two subsets of at least two indices
C34_Witness ==
    /\ rcv.pc = "constructed"
    /\ rcv.L_ = 2 /\ rcv.k_ >= 2
    /\ Len(rcv.high_entropy_dims_) < rcv.d_
    /\ Len(rcv.high_entropy_dims_) > 0
    /\ rcv.subsets_[0] # rcv.subsets_[1]

(* ------------------------ read-only shared state ----------------------- *)
\* the Sender is in runOnline, the Receiver is in runOnline
SenderOnline ==
    snd.pc \in {"online", "query", "wait_shares", "wait_flag", "wait_peqt"}

ReceiverOnline == rcv.pc \in {"wait_m", "round", "wait_sum", "peqt", "ot"}

\* C35 (read-only shared state): no step of the online phase changes the
\* Sender's okvs_encoded_, OKVS decoder parameters, packed_vectors_,
\* n_receiver_ and encryptor, nor the Receiver's W_, ID_W_ and key material
C35_ReadOnly ==
    [][/\ SenderOnline =>
            /\ snd'.okvs_encoded_ = snd.okvs_encoded_
            /\ snd'.okvs_seed_ = snd.okvs_seed_
            /\ snd'.okvs_m_ = snd.okvs_m_
            /\ snd'.okvs_band_length_ = snd.okvs_band_length_
            /\ snd'.okvs_n_items_ = snd.okvs_n_items_
            /\ snd'.packed_vectors_ = snd.packed_vectors_
            /\ snd'.n_receiver_ = snd.n_receiver_
            /\ snd'.encryptor_ = snd.encryptor_
       /\ ReceiverOnline =>
            /\ rcv'.W_ = rcv.W_
            /\ rcv'.ID_W_ = rcv.ID_W_
            /\ rcv'.secret_key_ = rcv.secret_key_
            /\ rcv'.public_key_ = rcv.public_key_]_vars

\* both parties have ended the online phase with a query processed and the
\* state of the offline phase in place
C35_Witness ==
    /\ snd.pc = "done" /\ rcv.pc = "done"
    /\ snd.j = M /\ rcv.j = M /\ M > 0
    /\ DOMAIN snd.packed_vectors_ = 0..(N - 1)
    /\ snd.okvs_encoded_ # {}
    /\ snd.encryptor_ = rcv.public_key_
    /\ rcv.ID_W_ # <<>>

(* --------------------------- OKVS key coupling ------------------------- *)
\* m: the least number of queries with a query index that is no index of
\* the Receiver's set
MKeys == N + 1

\* one session whose Sender has a query past the Receiver's last index
InitKeys ==
    /\ \E W \in WSets, Q \in QSetsOf(MKeys) :
          /\ rcv = InitialReceiver(W, CHOOSE c \in SubsetChoices : 0 \in c[0])
          /\ snd = InitialSender(Q, CHOOSE c \in SubsetChoices : 0 \in c[0])
    /\ chanRS = <<>>
    /\ chanSR = <<>>
    /\ wire = NoWire
    /\ twin = NoTwin
    /\ same_view = TRUE

SpecKeys == InitKeys /\ [][Next]_vars


\* the Sender has built the OKVS key of the round it is in
SenderKeyBuilt == snd.pc \in {"wait_shares", "wait_flag"}

\* the fingerprint of the round the Sender is in
RoundFingerprint == NthId(snd.ID_Q_[snd.j], snd.q.ell)

\* the entries the Receiver inserted under the key the Sender has built
EntriesHit == {p \in rcv.okvs_encoded_ : p[1] = snd.q.okvs_key}

\* C36 (OKVS key coupling): the key the Sender builds for query index j and
\* fingerprint f is a key the Receiver inserted if and only if j < N and f
\* is a fingerprint of W[j]; the entries query j hits are entries inserted
\* for Receiver index j, and a query with j >= N hits none
C36_KeyCoupling ==
    SenderKeyBuilt =>
        /\ EntriesHit # {} <=>
              /\ snd.j < rcv.n_
              /\ RoundFingerprint \in rcv.ID_W_[snd.j]
        /\ \A p \in EntriesHit : p[2] = Block(snd.j, 0)
        /\ snd.j >= rcv.n_ => EntriesHit = {}

\* a query past the Receiver's last index whose fingerprint is one the
\* Receiver inserted for a vector of its own, after a query that hit
C36_Witness ==
    /\ SenderKeyBuilt
    /\ snd.j >= rcv.n_
    /\ \E i \in DOMAIN rcv.ID_W_ : RoundFingerprint \in rcv.ID_W_[i]
    /\ \E p \in rcv.okvs_encoded_ : p[1].hi = snd.q.okvs_key.hi
    /\ EntriesHit = {}

\* a query whose fingerprint is one of its own Receiver vector and of no
\* other hits the entry of its index
C36_WitnessHit ==
    /\ SenderKeyBuilt
    /\ snd.j < rcv.n_
    /\ EntriesHit # {}
    /\ \E i \in DOMAIN rcv.ID_W_ : RoundFingerprint \notin rcv.ID_W_[i]

(* ----------------------- communication accounting ---------------------- *)
\* at the end of a completed session the two ends agree, phase by phase
CountersAgree ==
    Completed =>
        /\ rcv.offline_comm_.bytes_sent_ = snd.offline_comm_.bytes_received_
        /\ snd.offline_comm_.bytes_sent_ = rcv.offline_comm_.bytes_received_
        /\ rcv.online_comm_.bytes_sent_ = snd.online_comm_.bytes_received_
        /\ snd.online_comm_.bytes_sent_ = rcv.online_comm_.bytes_received_

\* a party in its online phase leaves its offline counters alone
OfflineCountersClosed ==
    /\ ReceiverOnline => rcv'.offline_comm_ = rcv.offline_comm_
    /\ SenderOnline => snd'.offline_comm_ = snd.offline_comm_

\* a party that puts messages on the channel in its online phase counts
\* bytes as sent online, one that takes messages off counts bytes as
\* received online
OnlineMessagesCounted ==
    /\ (ReceiverOnline /\ Len(chanRS') > Len(chanRS)) =>
          rcv'.online_comm_.bytes_sent_ > rcv.online_comm_.bytes_sent_
    /\ (SenderOnline /\ Len(chanSR') > Len(chanSR)) =>
          snd'.online_comm_.bytes_sent_ > snd.online_comm_.bytes_sent_
    /\ (ReceiverOnline /\ Len(chanSR') < Len(chanSR)) =>
          rcv'.online_comm_.bytes_received_ > rcv.online_comm_.bytes_received_
    /\ (SenderOnline /\ Len(chanRS') < Len(chanRS)) =>
          snd'.online_comm_.bytes_received_ > snd.online_comm_.bytes_received_

\* C37 (communication accounting): at the end of a completed session, for
\* each phase, what the Receiver's CommStats records as sent is what the
\* Sender's records as received, and the other way round; every message is
\* counted at each end and in the phase in which it was exchanged
C37_Accounting ==
    /\ []CountersAgree
    /\ [][OfflineCountersClosed]_vars
    /\ [][OnlineMessagesCounted]_vars

(* --------------------- the Receiver's result containers ---------------- *)
\* runOnline has read m_sender and cleared the containers
InQueryLoop == rcv.pc \in {"round", "wait_sum", "peqt", "ot", "done"}

\* the containers after each processed query
ContainersInStep ==
    InQueryLoop =>
        /\ Len(rcv.fuzzy_intersection_) = Cardinality(rcv.matched_sender_indices_)
        /\ \A j \in rcv.matched_sender_indices_ : 0 <= j /\ j < rcv.m_sender

\* runOnline starts with both containers empty; an index enters
\* matched_sender_indices_ only at the end of its own query, with the
\* aggregated flag of that query at 1
IndexOfMatch ==
    /\ (rcv.pc = "wait_m" /\ rcv'.pc # "wait_m" /\ rcv'.pc # "Fatal") =>
          /\ rcv'.matched_sender_indices_ = {}
          /\ rcv'.fuzzy_intersection_ = <<>>
    /\ (InQueryLoop /\ rcv'.matched_sender_indices_ # rcv.matched_sender_indices_) =>
          /\ rcv.pc = "ot" /\ rcv.has_match
          /\ rcv'.matched_sender_indices_ = rcv.matched_sender_indices_ \cup {rcv.j}
    /\ (rcv.pc = "ot" /\ rcv'.pc \in {"round", "done"}) =>
          (rcv.j \in rcv'.matched_sender_indices_ <=> rcv.has_match)

\* C38 (Receiver result bookkeeping): both containers are empty when
\* runOnline starts; after every processed query the two containers have
\* the same size, and every element of matched_sender_indices_ lies in
\* [0, m_sender) and is the index of a query whose aggregated flag was 1
C38_Bookkeeping ==
    /\ []ContainersInStep
    /\ [][IndexOfMatch]_vars

\* the Receiver has ended runOnline with some queries kept and some not
C38_Witness ==
    /\ rcv.pc = "done"
    /\ rcv.j = rcv.m_sender
    /\ Cardinality(rcv.matched_sender_indices_) >= 1
    /\ Cardinality(rcv.matched_sender_indices_) < rcv.m_sender
    /\ Len(rcv.fuzzy_intersection_) = Cardinality(rcv.matched_sender_indices_)

(* ------------------------ vectors and blocks --------------------------- *)
\* the lengths d <= 128 of the vectors the model converts
VecLens == {1, 8, 64, 65, 128}

\* the vectors of length d the model converts: all zero, all one, and a
\* single one at each place
VecSamples(d) ==
    {[i \in 0..(d - 1) |-> 0], [i \in 0..(d - 1) |-> 1]}
      \cup {[i \in 0..(d - 1) |-> IF i = p THEN 1 ELSE 0] : p \in 0..(d - 1)}

\* utils::vectorToBlock: bit i of low is vec[offset + i], bit i of high is
\* vec[offset + 64 + i]; a 64-bit word is the function of its bits
vectorToBlock(vec, offset) ==
    LET size == Cardinality(DOMAIN vec)
        low == [i \in 0..63 |->
                   IF offset + i < size /\ vec[offset + i] # 0 THEN 1 ELSE 0]
        high == [i \in 0..63 |->
                   IF offset + 64 + i < size /\ vec[offset + 64 + i] # 0
                   THEN 1 ELSE 0]
    IN  Block(low, high)

\* utils::blockToVector: memcpy leaves the low word of the block in data[0]
\* and the high word in data[1]
blockToVector(b, d) ==
    LET low == b.lo
        high == b.hi
    IN  [i \in 0..(d - 1) |-> IF i < 64 THEN low[i] ELSE high[i - 64]]

\* a vector v of length d to be converted
InitBlock ==
    /\ \E d \in VecLens : \E v \in VecSamples(d) :
          rcv = [pc |-> "vector", d_ |-> d, v |-> v]
    /\ snd = [pc |-> "none"]
    /\ chanRS = <<>>
    /\ chanSR = <<>>
    /\ wire = NoWire
    /\ twin = NoTwin
    /\ same_view = TRUE

\* b = vectorToBlock(v, 0)
T_vectorToBlock ==
    /\ rcv.pc = "vector"
    /\ rcv' = [pc |-> "block", d_ |-> rcv.d_, v |-> rcv.v,
               b |-> vectorToBlock(rcv.v, 0)]
    /\ UNCHANGED <<snd, chanRS, chanSR, wire, twin, same_view>>

\* vec = blockToVector(b, d)
T_blockToVector ==
    /\ rcv.pc = "block"
    /\ rcv' = [pc |-> "vector_again", d_ |-> rcv.d_, v |-> rcv.v, b |-> rcv.b,
               vec |-> blockToVector(rcv.b, rcv.d_)]
    /\ UNCHANGED <<snd, chanRS, chanSR, wire, twin, same_view>>

NextBlock == T_vectorToBlock \/ T_blockToVector

SpecBlock == InitBlock /\ [][NextBlock]_vars

\* C39 (vector/block round trip): for every binary vector v of length
\* d <= 128, blockToVector(vectorToBlock(v, 0), d) = v
C39_RoundTrip ==
    rcv.pc = "vector_again" => rcv.vec = rcv.v

=============================================================================
